---- MODULE Spec2Model ----
(***************************************************************************)
(* Model of the retrieval core of the AI customer-support engine.          *)
(*                                                                         *)
(* Part 1: the FAISS vector store of ai_engine/vectorstore/vector_store.py *)
(* and its callers in ai_engine/rag/pipeline.py.  The store keeps no state *)
(* in memory: every operation loads the two files data/faiss_index.bin and *)
(* data/metadata.json, works on its private copy and writes both files     *)
(* back.  The callers run concurrently (FastAPI runs the sync routes in a  *)
(* thread pool and the async ones on the event loop), so each operation is *)
(* split at its file accesses: reading metadata.json, reading              *)
(* faiss_index.bin, writing faiss_index.bin, writing metadata.json.  The   *)
(* computation between two file accesses touches only the caller's own     *)
(* objects and is folded into the step of the file access that follows it. *)
(*                                                                         *)
(* Representation.  A text is a sequence of words.  A vector of the flat   *)
(* L2 index is represented by its first coordinate (an integer), all its   *)
(* other coordinates being 0; an array of embeddings is its second shape   *)
(* component `dim` and the rows' coordinates.  Distances and scores are      *)
(* counted in twentieths (the boost -0.1 is -2), so that they are integers *)
(* and the boost can overtake a distance gap smaller than itself.          *)
(***************************************************************************)
EXTENDS Integers, Sequences, FiniteSets, TLC

VARIABLES
    idxFile,    \* data/faiss_index.bin
    metaFile,   \* data/metadata.json
    pc,         \* per caller: position inside its operation
    op,         \* per caller: the operation and its arguments
    loc         \* per caller: the local variables of the operation

\* One request of the /stream route (Part 2)
VARIABLES
    sphase,              \* position of the request
    upstream,            \* what llm.astream delivers for its prompt
    upos,                \* how many upstream items have been consumed
    full_response,       \* stream_llm_answer: the text accumulated so far
    tokens,              \* what stream_llm_answer yields and the loop has not taken
    full_answer_so_far,  \* answer_query_stream: the answer buffer
    events,              \* what event_generator has yielded
    sources,             \* answer_query_stream: the hits of the retrieval
    cancelled            \* the client has disconnected

\* One call of a scorer of ai_engine/utils (Part 3)
VARIABLES
    scorer_call,         \* the function called and its arguments
    scorer_result,       \* what the call returned
    embed_calls          \* calls of the embedding model made by the call

\* One request of the /query route (Part 4)
VARIABLES
    q_phase,             \* position of the request
    q_req,               \* the arguments of answer_query
    q_llm,               \* what llm.invoke does with the prompt
    q_docs,              \* answer_query: the documents retrieved
    q_answer,            \* answer_query: the answer generated
    q_response,          \* what answer_query returned
    memory_store,        \* llm/memory.py: the history of each session
    chat,                \* backend/api/chat.py: the chat request being served
    mmr_call             \* retriever/rerank.py: the call of mmr and what it gave

storeVars == <<idxFile, metaFile, pc, op, loc>>

streamVars == <<sphase, upstream, upos, full_response, tokens, full_answer_so_far,
                events, sources, cancelled>>

answerVars == <<scorer_call, scorer_result, embed_calls, q_phase, q_req, q_llm, q_docs,
                q_answer, q_response, memory_store, chat, mmr_call>>

vars == <<storeVars, streamVars, answerVars>>

-----------------------------------------------------------------------------
(* Bounds of the model *)

NCallers == 2       \* concurrent callers of the engine
MaxRecords == 3     \* one caller: calls start only while the index stays this small
MaxConcRecords == 2 \* the same for callers that run concurrently
MaxChunks == 2      \* paragraphs of a document content
MaxK == 3           \* largest k a search is called with

Callers == 1..NCallers
DocIds == {1, 2}

-----------------------------------------------------------------------------
(* Texts and the embedding provider *)

\* vector_store.py:195, the section headers that earn the boost
BoostKeywords ==
    {"evaluation metrics:", "code:", "database:", "logging:", "deployment:", "optimization:"}

Blank == <<>>
Texts == {<<"refund">>, <<"code:", "ship">>}
Queries == Texts \cup {<<"policy">>}
Paragraphs == Texts \cup {Blank}

RECURSIVE SeqsUpTo(_, _)
SeqsUpTo(S, n) ==
    IF n = 0 THEN {<<>>}
    ELSE LET shorter == SeqsUpTo(S, n - 1)
         IN  shorter \cup {Append(s, x) : s \in {t \in shorter : Len(t) = n - 1}, x \in S}

Contents == SeqsUpTo(Paragraphs, MaxChunks)

EMBEDDING_DIM == 384

WordCode(w) ==
    CASE w = "refund" -> 1
      [] w = "ship"   -> 2
      [] w = "policy" -> 3
      [] OTHER        -> 0

RECURSIVE SumCodes(_)
SumCodes(t) == IF t = <<>> THEN 0 ELSE WordCode(Head(t)) + SumCodes(Tail(t))

\* embed_text: the model is deterministic, one vector per text
embed_text(text) == SumCodes(text)

\* embed_texts: shape (len(texts), EMBEDDING_DIM), float32
embed_texts(texts) ==
    [dim |-> EMBEDDING_DIM, rows |-> [i \in 1..Len(texts) |-> embed_text(texts[i])]]

\* Mutant: the splitter keeps the empty pieces
chunk_text_keeps_blank(content) == content

\* chunk_text: the splitter strips each piece and drops the empty ones
RECURSIVE chunk_text(_)
chunk_text(content) ==
    IF content = <<>> THEN <<>>
    ELSE IF Head(content) = Blank THEN chunk_text(Tail(content))
    ELSE <<Head(content)>> \o chunk_text(Tail(content))

Title(d) == IF d = 1 THEN "Doc one" ELSE "Doc two"

\* pipeline.py:69-78 and 116-125: one metadata dict per chunk
RECURSIVE BuildFrom(_, _, _)
BuildFrom(d, chunks, i) ==
    IF chunks = <<>> THEN <<>>
    ELSE <<[document_id |-> d, chunk_id |-> i, title |-> Title(d), text |-> Head(chunks)]>>
         \o BuildFrom(d, Tail(chunks), i + 1)

BuildMetadatas(d, chunks) == BuildFrom(d, chunks, 0)

-----------------------------------------------------------------------------
(* The two files and their formats *)

\* json.dump of a list of dicts: each dict becomes an object, its keys in
\* insertion order
JsonDumpDict(m) ==
    << <<"document_id", m.document_id>>, <<"chunk_id", m.chunk_id>>,
       <<"title", m.title>>, <<"text", m.text>> >>

JsonDump(metadata) == [i \in 1..Len(metadata) |-> JsonDumpDict(metadata[i])]

JsonValue(obj, key) == obj[CHOOSE i \in 1..Len(obj) : obj[i][1] = key][2]

\* Mutant: the text is read from the wrong key
JsonLoadDictWrongKey(obj) ==
    [document_id |-> JsonValue(obj, "document_id"), chunk_id |-> JsonValue(obj, "chunk_id"),
     title |-> JsonValue(obj, "title"), text |-> <<JsonValue(obj, "title")>>]

JsonLoadDict(obj) ==
    [document_id |-> JsonValue(obj, "document_id"), chunk_id |-> JsonValue(obj, "chunk_id"),
     title |-> JsonValue(obj, "title"), text |-> JsonValue(obj, "text")]

JsonLoad(text) == [i \in 1..Len(text) |-> JsonLoadDict(text[i])]

\* faiss.IndexFlatL2(EMBEDDING_DIM)
_empty_index == [d |-> EMBEDDING_DIM, xb |-> <<>>]

ntotal(index) == Len(index.xb)

\* faiss.write_index: the header (d, ntotal) and the codes
WriteIndexBytes(index) == [d |-> index.d, ntotal |-> ntotal(index), codes |-> index.xb]

\* faiss.read_index
ReadIndexBytes(bytes) == [d |-> bytes.d, xb |-> SubSeq(bytes.codes, 1, bytes.ntotal)]

NoMetaFile == [exists |-> FALSE, data |-> <<>>]
NoIndexFile == [exists |-> FALSE, data |-> [d |-> 0, ntotal |-> 0, codes |-> <<>>]]

\* vector_store.py:55, what faiss.write_index leaves in faiss_index.bin
IndexFileOf(index) == [exists |-> TRUE, data |-> WriteIndexBytes(index)]

\* vector_store.py:56-57, what json.dump leaves in metadata.json
MetaFileOf(metadata) == [exists |-> TRUE, data |-> JsonDump(metadata)]

\* vector_store.py:30-34
ReadMetadata(f) == IF f.exists THEN JsonLoad(f.data) ELSE <<>>

\* vector_store.py:37-40
ReadIndex(f) == IF f.exists THEN ReadIndexBytes(f.data) ELSE _empty_index

\* Mutant: the safety check is left out
load_without_check(index, metadata) == [index |-> index, metadata |-> metadata]

\* vector_store.py:43-47, the safety check that ends load_index_and_metadata
load_index_and_metadata(index, metadata) ==
    IF ntotal(index) # Len(metadata)
    THEN [index |-> _empty_index, metadata |-> <<>>]
    ELSE [index |-> index, metadata |-> metadata]

\* Mutant: the shape check is left out
DimensionUnchecked(embeddings) == TRUE

\* vector_store.py:74, the shape check of add_embeddings
DimensionMatches(embeddings) == embeddings.dim = EMBEDDING_DIM

\* vector_store.py:79-80: index.add(embeddings); metadata.extend(metadatas)
AddTo(pair, embeddings, metadatas) ==
    [index |-> [d |-> pair.index.d, xb |-> pair.index.xb \o embeddings.rows],
     metadata |-> pair.metadata \o metadatas]

\* Mutant: only the first record of the document is removed
RECURSIVE FilterOutFirst(_, _)
FilterOutFirst(metadata, document_id) ==
    IF metadata = <<>> THEN <<>>
    ELSE IF Head(metadata).document_id = document_id
         THEN Tail(metadata)
         ELSE <<Head(metadata)>> \o FilterOutFirst(Tail(metadata), document_id)

\* vector_store.py:98
RECURSIVE FilterOut(_, _)
FilterOut(metadata, document_id) ==
    IF metadata = <<>> THEN <<>>
    ELSE IF Head(metadata).document_id # document_id
         THEN <<Head(metadata)>> \o FilterOut(Tail(metadata), document_id)
         ELSE FilterOut(Tail(metadata), document_id)

\* Mutant: the index is rebuilt and saved even when nothing matched
RebuildAlways(metadata, new_metadata) == FALSE

\* vector_store.py:101, delete_document's test for having nothing to do
NothingToDelete(metadata, new_metadata) == Len(new_metadata) = Len(metadata)

\* vector_store.py:125-131: a new index from the re-embedded texts
RebuiltIndex(metadata) ==
    IF Len(metadata) > 0
    THEN [d |-> EMBEDDING_DIM,
          xb |-> embed_texts([i \in 1..Len(metadata) |-> metadata[i].text]).rows]
    ELSE _empty_index

-----------------------------------------------------------------------------
(* search_embeddings, vector_store.py:138-220 *)

\* IndexFlatL2 reports squared L2 distances (here in twentieths)
L2(q, x) == (q - x) * (q - x)

Min(a, b) == IF a < b THEN a ELSE b

\* vector_store.py:174-175
SearchK(k, document_ids, index) ==
    Min(IF document_ids # {} THEN k * 5 ELSE k * 2, ntotal(index))

\* index.search(query, n): the positions of the n nearest vectors, nearest
\* first; the order among equal distances is the library's choice
FaissSearch(index, q, n) ==
    LET N == ntotal(index)
        D(i) == L2(q, index.xb[i])
    IN  {c \in [1..n -> 1..N] :
            /\ \A i, j \in 1..n : i < j => c[i] # c[j] /\ D(c[i]) <= D(c[j])
            /\ \A i \in 1..n : \A x \in (1..N) \ {c[j] : j \in 1..n} : D(c[i]) <= D(x)}

\* vector_store.py:193-196
HasKeyword(text) == \E i \in 1..Len(text) : text[i] \in BoostKeywords

BoostTwentieths == -2

Boost(text) == IF HasKeyword(text) THEN BoostTwentieths ELSE 0

\* vector_store.py:186-198: a metadata dict with its score
Hit(m, dist) ==
    [document_id |-> m.document_id, chunk_id |-> m.chunk_id, title |-> m.title,
     text |-> m.text, score |-> dist + Boost(m.text)]

\* Mutant: the text of the chunk is part of the key
ChunkKeyWithText(item) == <<item.document_id, item.chunk_id, item.text>>

\* vector_store.py:201
ChunkKey(item) == <<item.document_id, item.chunk_id>>

\* Mutant: no candidate is dropped for its document
NeverFilteredOut(item, document_ids) == FALSE

\* vector_store.py:189, the candidate is not of an allowed document
FilteredOut(item, document_ids) ==
    document_ids # {} /\ item.document_id \notin document_ids

\* vector_store.py:182-208, the loop over the candidates
RECURSIVE CollectHits(_, _, _, _, _, _, _)
CollectHits(cands, index, metadata, q, document_ids, k, results) ==
    IF cands = <<>> THEN results
    ELSE LET idx == Head(cands)
             item == Hit(metadata[idx], L2(q, index.xb[idx]))
         IN  IF idx < 1 \/ idx > Len(metadata)
             THEN CollectHits(Tail(cands), index, metadata, q, document_ids, k, results)
             ELSE IF FilteredOut(item, document_ids)
             THEN CollectHits(Tail(cands), index, metadata, q, document_ids, k, results)
             ELSE LET seen == {ChunkKey(results[i]) : i \in 1..Len(results)}
                      next == IF ChunkKey(item) \notin seen
                              THEN Append(results, item) ELSE results
                  IN  IF Len(next) >= k THEN next
                      ELSE CollectHits(Tail(cands), index, metadata, q, document_ids, k, next)

\* list.sort(key=score): stable, ascending
RECURSIVE InsertByScore(_, _)
InsertByScore(sorted, item) ==
    IF sorted = <<>> THEN <<item>>
    ELSE IF Head(sorted).score <= item.score
         THEN <<Head(sorted)>> \o InsertByScore(Tail(sorted), item)
         ELSE <<item>> \o sorted

\* Mutant: the results are left in candidate order
Unsorted(results) == results

RECURSIVE SortByScore(_)
SortByScore(results) ==
    IF results = <<>> THEN <<>>
    ELSE InsertByScore(SortByScore(SubSeq(results, 1, Len(results) - 1)),
                       results[Len(results)])

\* vector_store.py:211-212
SortAndCut(results, k) == SubSeq(SortByScore(results), 1, Min(k, Len(results)))

\* vector_store.py:177-220 for one answer `cands` of index.search
SearchResult(cands, index, metadata, q, document_ids, k) ==
    SortAndCut(CollectHits(cands, index, metadata, q, document_ids, k, <<>>), k)

-----------------------------------------------------------------------------
(* The callers *)

NoOp ==
    [name |-> "none", document_id |-> 0,
     embeddings |-> [dim |-> EMBEDDING_DIM, rows |-> <<>>], metadatas |-> <<>>,
     query |-> <<>>, k |-> 0, document_ids |-> {}]

NoLoc ==
    [call |-> "none", rdMeta |-> <<>>,
     index |-> _empty_index, metadata |-> <<>>,
     newIndex |-> _empty_index, newMeta |-> <<>>,
     result |-> <<>>, outcome |-> "none",
     statuses |-> <<>>,     \* index_document: the statuses sent to update_status
     chunk_count |-> -1,    \* index_document: the chunk count sent with completed
     returned |-> -1]       \* index_document: the chunk count returned

\* No scorer has been called
NoCall == [fn |-> "none", answer |-> <<>>, sources |-> <<>>, similarities |-> <<>>]

\* No chat request has arrived
NoChat == [user_id |-> 0, document_ids |-> {}, forwarded |-> {}]

\* mmr has not been called
NoMmr == [query_emb |-> <<>>, doc_embs |-> <<>>, lambda_param |-> 0, top_k |-> 0,
          outcome |-> "none", selected |-> <<>>]

InitAnswer ==
    /\ scorer_call = NoCall
    /\ scorer_result = [value |-> 0]
    /\ embed_calls = 0
    /\ q_phase = "idle"
    /\ q_req = [session_id |-> "s1", query |-> <<>>, k |-> 0, document_ids |-> {}]
    /\ q_llm = [kind |-> "content", text |-> <<>>]
    /\ q_docs = <<>>
    /\ q_answer = <<>>
    /\ q_response = [answer |-> <<>>, sources |-> <<>>]
    /\ memory_store = [session_id \in {"s1", "s2"} |-> <<>>]
    /\ chat = NoChat
    /\ mmr_call = NoMmr

Init ==
    /\ InitAnswer
    /\ idxFile = NoIndexFile
    /\ metaFile = NoMetaFile
    /\ pc = [p \in Callers |-> "idle"]
    /\ op = [p \in Callers |-> NoOp]
    /\ loc = [p \in Callers |-> NoLoc]
    /\ sphase = "idle"
    /\ upstream = <<>>
    /\ upos = 0
    /\ full_response = <<>>
    /\ tokens = <<>>
    /\ full_answer_so_far = <<>>
    /\ events = <<>>
    /\ sources = <<>>
    /\ cancelled = FALSE

Max(a, b) == IF a > b THEN a ELSE b

\* The records a caller in flight may still append
Pending(p) ==
    IF pc[p] \in {"idle", "done"} \/ (pc[p] = "write_meta" /\ loc[p].call = "add_embeddings")
    THEN 0 ELSE Len(op[p].metadatas)

RECURSIVE PendingSum(_)
PendingSum(S) ==
    IF S = {} THEN 0
    ELSE LET p == CHOOSE q \in S : TRUE IN Pending(p) + PendingSum(S \ {p})

\* The longest list a caller holds
Held(p) == Max(Len(loc[p].rdMeta), Max(Len(loc[p].metadata), Len(loc[p].newMeta)))

RECURSIVE MaxHeld(_)
MaxHeld(S) ==
    IF S = {} THEN 0
    ELSE LET p == CHOOSE q \in S : TRUE IN Max(Held(p), MaxHeld(S \ {p}))

\* No snapshot written from here on is longer than this
Potential ==
    Max(Max(Len(metaFile.data), idxFile.data.ntotal), MaxHeld(Callers))
    + PendingSum(Callers)

Room(n, cap) == Potential + n <= cap

\* pipeline.py:51, 56 and 66: the statuses index_document has sent when it
\* calls add_embeddings
StatusesBeforeAdd == <<"processing", "chunking", "embedding">>

\* Mutant: completed is sent without saving before it
CompletedOnly(statuses) == statuses \o <<"completed">>

\* pipeline.py:83 and 86: the statuses sent after add_embeddings has returned
StatusesAfterAdd(statuses) == statuses \o <<"saving", "completed">>

Begin(p, o, call) ==
    /\ pc[p] = "idle"
    /\ op' = [op EXCEPT ![p] = o]
    /\ loc' = [loc EXCEPT ![p] =
                 [NoLoc EXCEPT !.call = call,
                               !.statuses = IF o.name = "index_document"
                                            THEN StatusesBeforeAdd ELSE <<>>]]
    /\ pc' = [pc EXCEPT ![p] = "load_meta"]
    /\ UNCHANGED <<answerVars, streamVars, idxFile, metaFile>>

\* The call ends; of its locals only what it reports is kept (a search also
\* keeps the pair it worked on)
FinishWith(p, outcome, result) ==
    LET kept == loc[p].call = "search_embeddings"
        \* pipeline.py:81-88, add_embeddings has returned to index_document
        completes == op[p].name = "index_document" /\ outcome = "ok"
    IN  /\ pc' = [pc EXCEPT ![p] = "done"]
        /\ loc' = [loc EXCEPT ![p] =
                     [NoLoc EXCEPT !.call = loc[p].call,
                                   !.index = IF kept THEN loc[p].index ELSE _empty_index,
                                   !.metadata = IF kept THEN loc[p].metadata ELSE <<>>,
                                   !.result = result,
                                   !.outcome = outcome,
                                   !.statuses = IF completes
                                                THEN StatusesAfterAdd(loc[p].statuses)
                                                ELSE loc[p].statuses,
                                   !.chunk_count = IF completes
                                                   THEN Len(op[p].metadatas) ELSE -1,
                                   !.returned = IF completes
                                                THEN Len(op[p].metadatas) ELSE -1]]

Finish(p, outcome) == FinishWith(p, outcome, <<>>)

\* pipeline.py:34-88, index_document up to its call of add_embeddings
IndexDocument(p, d, content, cap) ==
    LET chunks == chunk_text(content)
    IN  /\ pc[p] = "idle"
        /\ chunks # <<>>
        /\ Room(Len(chunks), cap)
        /\ Begin(p, [NoOp EXCEPT !.name = "index_document", !.document_id = d,
                                 !.embeddings = embed_texts(chunks),
                                 !.metadatas = BuildMetadatas(d, chunks)],
                 "add_embeddings")

\* pipeline.py:50-61, index_document when the chunker yields nothing
IndexDocumentNoChunks(p, d, content) ==
    /\ pc[p] = "idle"
    /\ chunk_text(content) = <<>>
    /\ op' = [op EXCEPT ![p] = [NoOp EXCEPT !.name = "index_document",
                                            !.document_id = d]]
    /\ pc' = [pc EXCEPT ![p] = "done"]
    /\ loc' = [loc EXCEPT ![p] =
                 [NoLoc EXCEPT !.outcome = "no_chunks",
                               !.statuses = <<"processing", "chunking", "failed">>,
                               !.returned = 0]]
    /\ UNCHANGED <<answerVars, streamVars, idxFile, metaFile>>

\* pipeline.py:63-64, embed_texts raises (the embedding model fails):
\* index_document has no handler, the exception ends the background task
IndexDocumentEmbedRaises(p, d, content) ==
    /\ pc[p] = "idle"
    /\ chunk_text(content) # <<>>
    /\ op' = [op EXCEPT ![p] =
                [NoOp EXCEPT !.name = "index_document", !.document_id = d,
                             !.metadatas = BuildMetadatas(d, chunk_text(content))]]
    /\ pc' = [pc EXCEPT ![p] = "done"]
    /\ loc' = [loc EXCEPT ![p] =
                 [NoLoc EXCEPT !.outcome = "RuntimeError",
                               !.statuses = <<"processing", "chunking">>]]
    /\ UNCHANGED <<answerVars, streamVars, idxFile, metaFile>>

\* pipeline.py:91-105, update_document: first delete_document(document_id)
UpdateDocument(p, d, content, cap) ==
    LET chunks == chunk_text(content)
    IN  /\ pc[p] = "idle"
        /\ Room(Len(chunks), cap)
        /\ Begin(p, [NoOp EXCEPT !.name = "update_document", !.document_id = d,
                                 !.embeddings = embed_texts(chunks),
                                 !.metadatas = BuildMetadatas(d, chunks)],
                 "delete_document")

\* app.py:222-238, the delete route
DeleteDocument(p, d) ==
    /\ d \in DocIds
    /\ Begin(p, [NoOp EXCEPT !.name = "delete_document", !.document_id = d],
             "delete_document")

\* vector_store.py:61, add_embeddings called with an array of any width
AddEmbeddings(p, d, text, dim, cap) ==
    /\ pc[p] = "idle"
    /\ Room(1, cap)
    /\ Begin(p, [NoOp EXCEPT !.name = "add_embeddings", !.document_id = d,
                             !.embeddings = [dim |-> dim, rows |-> <<embed_text(text)>>],
                             !.metadatas = BuildMetadatas(d, <<text>>)],
             "add_embeddings")

\* vector_store.py:138, search_embeddings(embed_text(query), k, document_ids)
Search(p, query, k, document_ids) ==
    /\ k >= 0
    /\ Begin(p, [NoOp EXCEPT !.name = "search_embeddings", !.query = query, !.k = k,
                             !.document_ids = document_ids],
             "search_embeddings")

\* vector_store.py:30-34
LoadMeta(p) ==
    /\ pc[p] = "load_meta"
    /\ loc' = [loc EXCEPT ![p].rdMeta = ReadMetadata(metaFile)]
    /\ pc' = [pc EXCEPT ![p] = "load_index"]
    /\ UNCHANGED <<answerVars, streamVars, idxFile, metaFile, op>>

\* vector_store.py:37-47
LoadIndex(p) ==
    LET pair == load_index_and_metadata(ReadIndex(idxFile), loc[p].rdMeta)
    IN  /\ pc[p] = "load_index"
        /\ loc' = [loc EXCEPT ![p].rdMeta = <<>>,
                              ![p].index = pair.index, ![p].metadata = pair.metadata]
        /\ pc' = [pc EXCEPT ![p] = "loaded"]
        /\ UNCHANGED <<answerVars, streamVars, idxFile, metaFile, op>>

\* vector_store.py:55, the first half of save_index_and_metadata
WriteIndex(p, index, metadata) ==
    /\ idxFile' = IndexFileOf(index)
    /\ loc' = [loc EXCEPT ![p] = [NoLoc EXCEPT !.call = loc[p].call,
                                                !.newIndex = index, !.newMeta = metadata,
                                                !.statuses = loc[p].statuses]]
    /\ pc' = [pc EXCEPT ![p] = "write_meta"]
    /\ UNCHANGED <<answerVars, streamVars, metaFile, op>>

\* vector_store.py:74-77
AddRaises(p) ==
    /\ pc[p] = "loaded" /\ loc[p].call = "add_embeddings"
    /\ ~DimensionMatches(op[p].embeddings)
    /\ Finish(p, "ValueError")
    /\ UNCHANGED <<answerVars, streamVars, idxFile, metaFile, op>>

\* vector_store.py:79-81 and 55
AddWriteIndex(p) ==
    LET new == AddTo([index |-> loc[p].index, metadata |-> loc[p].metadata],
                     op[p].embeddings, op[p].metadatas)
    IN  /\ pc[p] = "loaded" /\ loc[p].call = "add_embeddings"
        /\ DimensionMatches(op[p].embeddings)
        /\ WriteIndex(p, new.index, new.metadata)

\* Mutant: the call ends with the deletion
AfterDeleteStops(p) == Finish(p, "ok")

\* pipeline.py:107-126, update_document after its delete_document returned
AfterDelete(p) ==
    IF op[p].name = "update_document"
    THEN IF op[p].metadatas = <<>>
         THEN Finish(p, "no_chunks")
         ELSE /\ loc' = [loc EXCEPT ![p] = [NoLoc EXCEPT !.call = "add_embeddings"]]
              /\ pc' = [pc EXCEPT ![p] = "load_meta"]
    ELSE Finish(p, "ok")

\* vector_store.py:98-103, delete_document finds nothing to delete
DeleteNothing(p) ==
    /\ pc[p] = "loaded" /\ loc[p].call = "delete_document"
    /\ NothingToDelete(loc[p].metadata, FilterOut(loc[p].metadata, op[p].document_id))
    /\ AfterDelete(p)
    /\ UNCHANGED <<answerVars, streamVars, idxFile, metaFile, op>>

\* vector_store.py:105-133 and 55, delete_document rebuilds the index
DeleteWriteIndex(p) ==
    LET new_metadata == FilterOut(loc[p].metadata, op[p].document_id)
    IN  /\ pc[p] = "loaded" /\ loc[p].call = "delete_document"
        /\ ~NothingToDelete(loc[p].metadata, new_metadata)
        /\ WriteIndex(p, RebuiltIndex(new_metadata), new_metadata)

\* vector_store.py:56-57, the second half of save_index_and_metadata
WriteMeta(p) ==
    /\ pc[p] = "write_meta"
    /\ metaFile' = MetaFileOf(loc[p].newMeta)
    /\ IF loc[p].call = "delete_document" THEN AfterDelete(p) ELSE Finish(p, "ok")
    /\ UNCHANGED <<answerVars, streamVars, idxFile, op>>

\* vector_store.py:156-158
SearchEmpty(p) ==
    /\ pc[p] = "loaded" /\ loc[p].call = "search_embeddings"
    /\ ntotal(loc[p].index) = 0
    /\ Finish(p, "ok")
    /\ UNCHANGED <<answerVars, streamVars, idxFile, metaFile, op>>

\* vector_store.py:171-220.  For n = 0 the Python wrapper of index.search
\* either answers with no candidate or, in the releases that assert k > 0,
\* raises AssertionError
SearchHits(p) ==
    LET n == SearchK(op[p].k, op[p].document_ids, loc[p].index)
    IN  /\ pc[p] = "loaded" /\ loc[p].call = "search_embeddings"
        /\ ntotal(loc[p].index) # 0
        /\ \/ \E cands \in FaissSearch(loc[p].index, embed_text(op[p].query), n) :
                 FinishWith(p, "ok", SearchResult(cands, loc[p].index, loc[p].metadata,
                                                  embed_text(op[p].query),
                                                  op[p].document_ids, op[p].k))
           \/ n = 0 /\ Finish(p, "AssertionError")
        /\ UNCHANGED <<answerVars, streamVars, idxFile, metaFile, op>>

\* the call returns (or raises) to its caller
Return(p) ==
    /\ pc[p] = "done"
    /\ pc' = [pc EXCEPT ![p] = "idle"]
    /\ op' = [op EXCEPT ![p] = NoOp]
    /\ loc' = [loc EXCEPT ![p] = NoLoc]
    /\ UNCHANGED <<answerVars, streamVars, idxFile, metaFile>>

\* the process is killed inside an operation
Crash(p) ==
    /\ pc[p] \notin {"idle", "done"}
    /\ pc' = [pc EXCEPT ![p] = "idle"]
    /\ op' = [op EXCEPT ![p] = NoOp]
    /\ loc' = [loc EXCEPT ![p] = NoLoc]
    /\ UNCHANGED <<answerVars, streamVars, idxFile, metaFile>>

WrongDim == EMBEDDING_DIM - 1

\* The calls that change the index, for the document contents of `contents`
StartWrite(p, contents, cap) ==
    \/ \E d \in DocIds, content \in contents : IndexDocument(p, d, content, cap)
    \/ \E d \in DocIds, content \in contents : IndexDocumentNoChunks(p, d, content)
    \/ \E d \in DocIds, content \in contents : IndexDocumentEmbedRaises(p, d, content)
    \/ \E d \in DocIds, content \in contents : UpdateDocument(p, d, content, cap)
    \/ \E d \in DocIds : DeleteDocument(p, d)
    \/ \E d \in DocIds, text \in Texts, dim \in {EMBEDDING_DIM, WrongDim} :
          AddEmbeddings(p, d, text, dim, cap)

\* The steps inside a call
Run(p) ==
    \/ LoadMeta(p)
    \/ LoadIndex(p)
    \/ AddRaises(p)
    \/ AddWriteIndex(p)
    \/ DeleteNothing(p)
    \/ DeleteWriteIndex(p)
    \/ WriteMeta(p)
    \/ SearchEmpty(p)
    \/ SearchHits(p)
    \/ Return(p)

\* A caller with every input of the bounded sets
Step(p) ==
    \/ StartWrite(p, Contents, MaxRecords)
    \/ \E query \in Queries, k \in 0..MaxK, document_ids \in SUBSET DocIds :
          Search(p, query, k, document_ids)
    \/ Run(p)

\* What the concurrent callers send: each document has one content of one
\* paragraph, and there is one failing add and one query
ContentOf(d) == IF d = 1 THEN << <<"refund">> >> ELSE << <<"code:", "ship">> >>

ConcStep(p) ==
    \/ \E d \in DocIds : IndexDocument(p, d, ContentOf(d), MaxConcRecords)
    \/ \E d \in DocIds : UpdateDocument(p, d, ContentOf(d), MaxConcRecords)
    \/ \E d \in DocIds : DeleteDocument(p, d)
    \/ AddEmbeddings(p, 1, <<"refund">>, WrongDim, MaxConcRecords)
    \/ Search(p, <<"policy">>, 1, {})
    \/ Run(p)

\* The callers run concurrently
Next == \E p \in Callers : ConcStep(p)

Spec == Init /\ [][Next]_vars

\* One caller, its calls one after the other
NextSeq == Step(1)

SpecSeq == Init /\ [][NextSeq]_vars

\* One caller, which may be killed at any point
NextCrash == ConcStep(1) \/ Crash(1)

SpecCrash == Init /\ [][NextCrash]_vars

-----------------------------------------------------------------------------
(* Properties of the vector store *)

PersistedVectors == IF idxFile.exists THEN idxFile.data.ntotal ELSE 0

PersistedRecords == IF metaFile.exists THEN Len(metaFile.data) ELSE 0

Quiescent == \A p \in Callers : pc[p] \in {"idle", "done"}

\* C1: whenever no call is in progress the persisted vector file and the
\* persisted metadata file hold the same number of records, and every pair a
\* caller has loaded has as many vectors as metadata entries.
C1_CountsEqual ==
    /\ Quiescent => PersistedVectors = PersistedRecords
    /\ \A p \in Callers :
          pc[p] \in {"loaded", "done"} => ntotal(loc[p].index) = Len(loc[p].metadata)

\* C2: whenever no call is in progress, the persisted vector at every position
\* is the embedding of the text of the persisted metadata entry at that
\* position.
C2_VectorsMatchTexts ==
    Quiescent =>
        \A i \in 1..Min(PersistedVectors, PersistedRecords) :
            idxFile.data.codes[i] = embed_text(ReadMetadata(metaFile)[i].text)

\* C3: when the process has stopped at any point of a call (or the call has
\* failed or returned), the two persisted files hold the same number of
\* records.
C3_SaveAllOrNothing ==
    pc[1] = "idle" => PersistedVectors = PersistedRecords

\* C4: load_index_and_metadata returns the empty index and empty metadata when
\* the persisted counts differ, and the persisted pair unchanged otherwise; a
\* missing file is an empty component.
C4_LoadResetsOnMismatch ==
    \A p \in Callers :
        pc[p] = "loaded" =>
            IF PersistedVectors # PersistedRecords
            THEN loc[p].index.xb = <<>> /\ loc[p].metadata = <<>>
            ELSE /\ loc[p].index.xb = (IF idxFile.exists THEN idxFile.data.codes ELSE <<>>)
                 /\ JsonDump(loc[p].metadata) = (IF metaFile.exists THEN metaFile.data ELSE <<>>)

C4_Witness ==
    \E p \in Callers :
        /\ pc[p] = "loaded"
        /\ ~metaFile.exists /\ PersistedVectors > 0
        /\ loc[p].index.xb = <<>>

\* C5: when a save of a pair with equal counts completes, loading the two
\* files it wrote gives back the same vectors and the same metadata, in the
\* same order.
C5_SaveLoadRoundTrip ==
    [][\A p \in Callers :
          (pc[p] = "write_meta" /\ pc'[p] # "write_meta"
              /\ ntotal(loc[p].newIndex) = Len(loc[p].newMeta)) =>
          load_index_and_metadata(ReadIndex(idxFile'), ReadMetadata(metaFile'))
              = [index |-> loc[p].newIndex, metadata |-> loc[p].newMeta]]_vars

C5_Witness ==
    \E p \in Callers :
        /\ pc[p] = "loaded"
        /\ Len(loc[p].metadata) >= 2
        /\ JsonDump(loc[p].metadata) = metaFile.data

\* C6: no step of an add_embeddings call whose embeddings are not
\* EMBEDDING_DIM wide changes either file, and the call ends with the
\* dimension-mismatch ValueError.
C6_DimensionMismatchWritesNothing ==
    [][\A p \in Callers :
          (loc[p].call = "add_embeddings" /\ op[p].embeddings.dim # EMBEDDING_DIM
              /\ pc'[p] # pc[p]) =>
          /\ idxFile' = idxFile
          /\ metaFile' = metaFile
          /\ pc[p] = "loaded" => (pc'[p] = "done" /\ loc'[p].outcome = "ValueError")]_vars

C6_Witness ==
    \E p \in Callers :
        /\ pc[p] = "done" /\ loc[p].outcome = "ValueError"
        /\ PersistedRecords > 0 /\ PersistedVectors = PersistedRecords

\* The load-mutate-save region of add_embeddings and delete_document
InRegion(p) ==
    /\ loc[p].call \in {"add_embeddings", "delete_document"}
    /\ pc[p] \in {"load_index", "loaded", "write_meta"}

\* C7: no two callers are inside the load-mutate-save region at once.
C7_OneWriterAtATime ==
    \A p, q \in Callers : p # q => ~(InRegion(p) /\ InRegion(q))

\* C8: a search never reads a vector file and a metadata file that are out of
\* step: when it reads the vector file, the file holds as many vectors as the
\* metadata it has read.
C8_SearchSeesOneSnapshot ==
    [][\A p \in Callers :
          (loc[p].call = "search_embeddings" /\ pc[p] = "load_index"
              /\ pc'[p] = "loaded") =>
          PersistedVectors = Len(loc[p].rdMeta)]_vars

IsSortedByScore(results) ==
    \A i, j \in 1..Len(results) : i < j => results[i].score <= results[j].score

SearchDone(p) ==
    pc[p] = "done" /\ loc[p].call = "search_embeddings" /\ loc[p].outcome = "ok"

\* C9: a search returns at most min(k, index size) hits, in ascending order of
\* score.
C9_SearchBoundedAndSorted ==
    \A p \in Callers :
        SearchDone(p) =>
            /\ Len(loc[p].result) <= Min(op[p].k, ntotal(loc[p].index))
            /\ IsSortedByScore(loc[p].result)

C9_Witness ==
    \E p \in Callers :
        /\ SearchDone(p)
        /\ op[p].k >= 2 /\ Len(loc[p].result) = op[p].k
        /\ ntotal(loc[p].index) > op[p].k
        /\ loc[p].result[1].score < loc[p].result[2].score
        /\ HasKeyword(loc[p].result[1].text)

\* C10: a search with k = 0 returns the empty list; a search without filter
\* with k larger than the index size returns every stored record; a search on
\* the empty index returns the empty list and no error.
C10_SearchEdgeCases ==
    \A p \in Callers :
        (pc[p] = "done" /\ loc[p].call = "search_embeddings") =>
            /\ op[p].k = 0 => (loc[p].outcome = "ok" /\ loc[p].result = <<>>)
            /\ (loc[p].outcome = "ok" /\ op[p].document_ids = {}
                    /\ op[p].k > ntotal(loc[p].index)) =>
                   /\ Len(loc[p].result) = Len(loc[p].metadata)
                   /\ \A i \in 1..Len(loc[p].metadata) :
                         \E j \in 1..Len(loc[p].result) :
                             /\ ChunkKey(loc[p].result[j]) = ChunkKey(loc[p].metadata[i])
                             /\ loc[p].result[j].text = loc[p].metadata[i].text
            /\ ntotal(loc[p].index) = 0 =>
                   (loc[p].outcome = "ok" /\ loc[p].result = <<>>)

RECURSIVE InsertInt(_, _)
InsertInt(s, x) ==
    IF s = <<>> THEN <<x>>
    ELSE IF x < Head(s) THEN <<x>> \o s ELSE <<Head(s)>> \o InsertInt(Tail(s), x)

RECURSIVE SortInts(_)
SortInts(s) == IF s = <<>> THEN <<>> ELSE InsertInt(SortInts(Tail(s)), Head(s))

\* The L2 distances from the query to the records of a hit list, in its order
DistancesOf(results, q) ==
    [i \in 1..Len(results) |-> L2(q, embed_text(results[i].text))]

\* The L2 distances from the query to every stored vector, ascending
StoredDistances(index, q) == SortInts([i \in 1..ntotal(index) |-> L2(q, index.xb[i])])

\* C11: a search without document filter returns the min(k, index size)
\* stored records nearest to the query, in ascending order of L2 distance.
C11_NearestByDistance ==
    \A p \in Callers :
        (SearchDone(p) /\ op[p].document_ids = {}) =>
            LET q == embed_text(op[p].query)
            IN  DistancesOf(loc[p].result, q)
                  = SubSeq(StoredDistances(loc[p].index, q), 1,
                           Min(op[p].k, ntotal(loc[p].index)))

\* A delete_document call (of the delete route or of update_document) is
\* completing its save
DeleteCompletes(p) ==
    pc[p] = "write_meta" /\ loc[p].call = "delete_document" /\ pc'[p] # "write_meta"

\* No search on the pair returns a hit of document d
NoHitOf(pair, d) ==
    \A query \in Queries, k \in 1..MaxK :
        \A cands \in FaissSearch(pair.index, embed_text(query),
                                 SearchK(k, {}, pair.index)) :
            LET hits == SearchResult(cands, pair.index, pair.metadata,
                                     embed_text(query), {}, k)
            IN  \A i \in 1..Len(hits) : hits[i].document_id # d

\* C12: when delete_document(d) completes, the persisted metadata is the
\* metadata from before the call without the entries of d, in the same order,
\* the vector file has as many vectors, and no search on the result returns a
\* hit of d.
C12_DeleteRemovesExactly ==
    [][\A p \in Callers :
          DeleteCompletes(p) =>
              LET d == op[p].document_id
                  before == ReadMetadata(metaFile)
                  after == ReadMetadata(metaFile')
              IN  /\ \A i \in 1..Len(after) : after[i].document_id # d
                  /\ Len(after) = Len(before)
                        - Cardinality({i \in 1..Len(before) : before[i].document_id = d})
                  /\ after = SelectSeq(before, LAMBDA m : m.document_id # d)
                  /\ PersistedVectors' = Len(after)
                  /\ NoHitOf(load_index_and_metadata(ReadIndex(idxFile'), after), d)]_vars

C12_Witness ==
    \E p \in Callers :
        /\ pc[p] = "write_meta" /\ loc[p].call = "delete_document"
        /\ Len(loc[p].newMeta) = 2
        /\ Len(metaFile.data) = 3
        /\ ReadMetadata(metaFile)[2].document_id = op[p].document_id

\* The persisted metadata holds no record of document d
NoRecordOf(d) ==
    \A i \in 1..PersistedRecords : ReadMetadata(metaFile)[i].document_id # d

\* C13: no step of a delete_document(d) call made while no stored record has
\* document_id d changes either file, and the call returns straight after its
\* load without saving.
C13_DeleteWithoutMatchIsNoOp ==
    [][\A p \in Callers :
          (op[p].name = "delete_document" /\ pc[p] # "done" /\ pc'[p] # pc[p]
              /\ NoRecordOf(op[p].document_id)) =>
          /\ idxFile' = idxFile
          /\ metaFile' = metaFile
          /\ pc[p] = "loaded" => pc'[p] = "done"]_vars

C13_Witness ==
    \E p \in Callers :
        /\ op[p].name = "delete_document" /\ pc[p] = "loaded"
        /\ Len(loc[p].metadata) >= 2
        /\ NoRecordOf(op[p].document_id)

\* retriever.py:43-54, hits as documents
_hits_to_documents(hits) ==
    [i \in 1..Len(hits) |->
        [page_content |-> hits[i].text,
         metadata |-> [document_id |-> hits[i].document_id, chunk_id |-> hits[i].chunk_id,
                       title |-> hits[i].title, score |-> hits[i].score]]]

\* retriever.py:74-78, what _get_relevant_documents(k) makes of the hits of
\* its search_embeddings(k * 3, allowed_document_ids) call
_get_relevant_documents(hits, k) == _hits_to_documents(SubSeq(hits, 1, Min(k, Len(hits))))

\* C14: with a non-empty set of allowed document ids, every hit of the search
\* and every document the retriever makes of the hits is of an allowed
\* document.
C14_HitsWithinFilter ==
    \A p \in Callers :
        (SearchDone(p) /\ op[p].document_ids # {}) =>
            /\ \A i \in 1..Len(loc[p].result) :
                  loc[p].result[i].document_id \in op[p].document_ids
            /\ \A k \in 1..MaxK :
                  op[p].k = k * 3 =>
                      LET docs == _get_relevant_documents(loc[p].result, k)
                      IN  \A i \in 1..Len(docs) :
                              docs[i].metadata.document_id \in op[p].document_ids

C14_Witness ==
    \E p \in Callers :
        /\ SearchDone(p) /\ op[p].document_ids # {} /\ op[p].k = 3
        /\ Len(loc[p].result) >= 1
        /\ loc[p].metadata[1].document_id \notin op[p].document_ids
        /\ L2(embed_text(op[p].query), loc[p].index.xb[1]) = 0

-----------------------------------------------------------------------------
(***************************************************************************)
(* Part 2: the streaming answer.  ai_engine/llm/llm.py stream_llm_answer   *)
(* reads the model's stream to its end, ai_engine/rag/pipeline.py          *)
(* answer_query_stream turns what it yields into events, and the /stream   *)
(* route of ai_engine/app.py frames them.                                  *)
(*                                                                         *)
(* Representation.  A Python str is the sequence of its characters, each a *)
(* string of length one.                                                   *)
(***************************************************************************)

Whitespace == {" ", "\n", "\t"}

\* str.lower() on the letters that occur in the model's texts
LowerChar(c) ==
    CASE c = "T" -> "t"
      [] c = "C" -> "c"
      [] c = "M" -> "m"
      [] OTHER   -> c

lower(s) == [i \in 1..Len(s) |-> LowerChar(s[i])]

RECURSIVE lstrip(_)
lstrip(s) == IF s # <<>> /\ Head(s) \in Whitespace THEN lstrip(Tail(s)) ELSE s

RECURSIVE rstrip(_)
rstrip(s) ==
    IF s # <<>> /\ s[Len(s)] \in Whitespace THEN rstrip(SubSeq(s, 1, Len(s) - 1)) ELSE s

\* str.strip()
strip(s) == rstrip(lstrip(s))

\* needle in hay
Contains(hay, needle) ==
    \E i \in 0..(Len(hay) - Len(needle)) : SubSeq(hay, i + 1, i + Len(needle)) = needle

\* s[-n:]
LastChars(s, n) == SubSeq(s, Max(1, Len(s) - n + 1), Len(s))

\* text.split('\n')
RECURSIVE SplitLines(_, _)
SplitLines(text, line) ==
    IF text = <<>> THEN <<line>>
    ELSE IF Head(text) = "\n" THEN <<line>> \o SplitLines(Tail(text), <<>>)
    ELSE SplitLines(Tail(text), Append(line, Head(text)))

\* '\n'.join(lines)
RECURSIVE JoinLines(_)
JoinLines(lines) ==
    IF lines = <<>> THEN <<>>
    ELSE IF Len(lines) = 1 THEN lines[1]
    ELSE lines[1] \o <<"\n">> \o JoinLines(Tail(lines))

\* ''.join(strings)
RECURSIVE Concat(_)
Concat(strings) == IF strings = <<>> THEN <<>> ELSE Head(strings) \o Concat(Tail(strings))

ShortLine == 20

\* Mutant: the lines are compared as written
NormalizedAsWritten(line_stripped) == line_stripped

\* llm.py:127
line_normalized(line_stripped) == lower(line_stripped)

\* llm.py:122
IsShort(line, line_stripped) == Len(line_stripped) < ShortLine

\* llm.py:112-134, the loop over the lines
RECURSIVE UniqueLines(_, _, _)
UniqueLines(lines, seen_long_lines, unique_lines) ==
    IF lines = <<>> THEN unique_lines
    ELSE LET line == Head(lines)
             line_stripped == strip(line)
         IN  IF line_stripped = <<>>
             THEN UniqueLines(Tail(lines), seen_long_lines, Append(unique_lines, line))
             ELSE IF IsShort(line, line_stripped)
             THEN UniqueLines(Tail(lines), seen_long_lines, Append(unique_lines, line))
             ELSE IF line_normalized(line_stripped) \in seen_long_lines
             THEN UniqueLines(Tail(lines), seen_long_lines, unique_lines)
             ELSE UniqueLines(Tail(lines),
                              seen_long_lines \cup {line_normalized(line_stripped)},
                              Append(unique_lines, line))

\* llm.py:101-138
_remove_duplicate_sentences(text) ==
    JoinLines(UniqueLines(SplitLines(text, <<>>), {}, <<>>))

SuppressBufferMin == 50
RecentWindow == 100
SuppressTokenMin == 3

\* pipeline.py:275
recent_text(full_answer) == LastChars(full_answer, RecentWindow)

\* pipeline.py:273-280, the token is skipped as a repetition
SkippedAsRepeat(full_answer, token) ==
    /\ Len(full_answer) > SuppressBufferMin
    /\ strip(token) # <<>> /\ Contains(recent_text(full_answer), strip(token))
    /\ Len(strip(token)) > SuppressTokenMin

\* A line of 20 characters
LongLine ==
    <<"t", "h", "e", " ", "c", "a", "t", " ", "s", "a", "t", " ", "o", "n",
    " ", "a", " ", "m", "a", "t">>

\* The same line in capitals, indented
LongLineCapitals ==
    <<" ", " ", "T", "h", "e", " ", "C", "a", "t", " ", "s", "a", "t", " ",
    "o", "n", " ", "a", " ", "M", "a", "t">>

\* A line of 19 characters
ShortLabel ==
    <<"r", "e", "s", "e", "t", " ", "y", "o", "u", "r", " ", "p", "a", "s",
    "s", "w", "o", "r", "d">>

\* llm.py:79
ErrorPrefix ==
    <<"\n", "\n", "[", "E", "r", "r", "o", "r", " ", "g", "e", "n", "e",
    "r", "a", "t", "i", "n", "g", " ", "r", "e", "s", "p", "o", "n", "s",
    "e", ":", " ">>

\* str(e) of the exception the generation service raises
TimeoutMessage ==
    <<"t", "i", "m", "e", "o", "u", "t">>

MaxUpstream == 4    \* items the generation service sends for one prompt

\* The contents of the chunks of llm.astream; the empty one stands for a
\* chunk whose content is None or ""
ChunkContents ==
    {Append(LongLine, "\n"), Append(LongLineCapitals, "\n"), Append(ShortLabel, "\n"),
     <<"\n">>, <<>>}

ContentItem(content) == [kind |-> "chunk", content |-> content]

RaiseItem == [kind |-> "raise", content |-> TimeoutMessage]

\* What llm.astream does for a prompt: it sends chunks and ends, or raises
\* after some of them
Upstreams ==
    LET chunks == SeqsUpTo({ContentItem(c) : c \in ChunkContents}, MaxUpstream)
    IN  chunks \cup {Append(s, RaiseItem) : s \in {t \in chunks : Len(t) < MaxUpstream}}

TokenEvent(token) == [type |-> "token", content |-> token, sources |-> <<>>]

SourcesEvent(hits) == [type |-> "sources", content |-> <<>>, sources |-> hits]

ErrorEvent(message) == [type |-> "error", content |-> message, sources |-> <<>>]

EndEvent == [type |-> "end", content |-> <<>>, sources |-> <<>>]

\* The characters of the words of the stored texts
WordChars(w) ==
    CASE w = "refund" -> <<"r", "e", "f", "u", "n", "d">>
      [] w = "code:"  -> <<"c", "o", "d", "e", ":">>
      [] w = "ship"   -> <<"s", "h", "i", "p">>
      [] w = "policy" -> <<"p", "o", "l", "i", "c", "y">>
      [] OTHER        -> <<>>

\* The stored text as a str: its words with one space between them
RECURSIVE TextChars(_)
TextChars(text) ==
    IF text = <<>> THEN <<>>
    ELSE IF Len(text) = 1 THEN WordChars(text[1])
    ELSE WordChars(Head(text)) \o <<" ">> \o TextChars(Tail(text))

\* pipeline.py:239
overlap_count(current_text, existing_text) ==
    Cardinality({i \in 1..Len(current_text) :
                    \E j \in 1..Len(existing_text) : existing_text[j] = current_text[i]})

\* Mutant: no hit is found redundant
never_redundant(result, filtered_results) == FALSE

\* pipeline.py:233-244: overlap_ratio > 0.5 against a hit already kept
is_redundant(result, filtered_results) ==
    LET current_text == lower(TextChars(result.text))
    IN  \E n \in 1..Len(filtered_results) :
            LET existing_text == lower(TextChars(filtered_results[n].text))
            IN  /\ Len(current_text) > 0
                /\ 2 * overlap_count(current_text, existing_text) > Len(current_text)

\* pipeline.py:231-249
RECURSIVE FilterRedundant(_, _)
FilterRedundant(results, filtered_results) ==
    IF results = <<>> THEN filtered_results
    ELSE FilterRedundant(Tail(results),
                         IF is_redundant(Head(results), filtered_results)
                         THEN filtered_results
                         ELSE Append(filtered_results, Head(results)))

DefaultStreamK == 10

\* pipeline.py:206, k = req.k or 10 (None and 0 both give 10)
StreamK(req_k) == IF req_k = 0 THEN DefaultStreamK ELSE req_k

\* pipeline.py:225-260: what the retrieval of a request can return on the
\* persisted index
StreamSources(query, req_k, document_ids) ==
    LET pair == load_index_and_metadata(ReadIndex(idxFile), ReadMetadata(metaFile))
        q == embed_text(query)
        k == StreamK(req_k)
    IN  IF ntotal(pair.index) = 0 THEN {<<>>}
        ELSE {FilterRedundant(SearchResult(cands, pair.index, pair.metadata, q,
                                           document_ids, k), <<>>) :
                 cands \in FaissSearch(pair.index, q, SearchK(k, document_ids, pair.index))}

\* app.py:326-340, a request arrives at POST /stream and the response starts
\* to iterate event_generator
StartStream(up) ==
    /\ sphase = "idle"
    /\ sphase' = "retrieve"
    /\ upstream' = up
    /\ UNCHANGED <<answerVars, storeVars, upos, full_response, tokens, full_answer_so_far,
                   events, sources, cancelled>>

\* pipeline.py:205-264, answer_query_stream up to its loop
Retrieve(query, req_k, document_ids) ==
    /\ sphase = "retrieve" /\ ~cancelled
    /\ sources' \in StreamSources(query, req_k, document_ids)
    /\ sphase' = "llm"
    /\ UNCHANGED <<answerVars, storeVars, upstream, upos, full_response, tokens,
                   full_answer_so_far, events, cancelled>>

\* A handler that reports the exception and lets the request go on
RetrieveRaisesAndGoesOn(message) ==
    /\ sphase = "retrieve" /\ ~cancelled
    /\ events' = Append(events, ErrorEvent(message))
    /\ sphase' = "llm"
    /\ UNCHANGED <<answerVars, storeVars, upstream, upos, full_response, tokens,
                   full_answer_so_far, sources, cancelled>>

\* pipeline.py:225-228 raises (the embedding model or the index files fail)
\* and app.py:344-347 turns the exception into an error event
RetrieveRaises(message) ==
    /\ sphase = "retrieve" /\ ~cancelled
    /\ events' = Append(events, ErrorEvent(message))
    /\ sphase' = "finally"
    /\ UNCHANGED <<answerVars, storeVars, upstream, upos, full_response, tokens,
                   full_answer_so_far, sources, cancelled>>

\* llm.py:72-76, one chunk of llm.astream
LlmChunk ==
    /\ sphase = "llm" /\ ~cancelled
    /\ upos < Len(upstream) /\ upstream[upos + 1].kind = "chunk"
    /\ upos' = upos + 1
    /\ full_response' = full_response \o upstream[upos + 1].content
    /\ UNCHANGED <<answerVars, storeVars, sphase, upstream, tokens, full_answer_so_far,
                   events, sources, cancelled>>

\* llm.py:77-80, llm.astream raises: one token with the error text, and
\* the generator returns
LlmRaises ==
    /\ sphase = "llm" /\ ~cancelled
    /\ upos < Len(upstream) /\ upstream[upos + 1].kind = "raise"
    /\ upos' = upos + 1
    /\ tokens' = <<ErrorPrefix \o upstream[upos + 1].content \o <<"]">> >>
    /\ sphase' = "tokens"
    /\ UNCHANGED <<answerVars, storeVars, upstream, full_response, full_answer_so_far,
                   events, sources, cancelled>>

\* llm.py:82-97, llm.astream has ended: the whole text, deduplicated, is the
\* one token
LlmEnds ==
    /\ sphase = "llm" /\ ~cancelled
    /\ upos = Len(upstream)
    /\ tokens' = <<_remove_duplicate_sentences(full_response)>>
    /\ sphase' = "tokens"
    /\ UNCHANGED <<answerVars, storeVars, upstream, upos, full_response, full_answer_so_far,
                   events, sources, cancelled>>

\* pipeline.py:267-284, one turn of the loop over what stream_llm_answer yields
NextToken ==
    /\ sphase = "tokens" /\ ~cancelled
    /\ tokens # <<>>
    /\ LET token == Head(tokens)
       IN  IF token = <<>> \/ SkippedAsRepeat(full_answer_so_far, token)
           THEN UNCHANGED <<full_answer_so_far, events>>
           ELSE /\ full_answer_so_far' = full_answer_so_far \o token
                /\ events' = Append(events, TokenEvent(token))
    /\ tokens' = Tail(tokens)
    /\ UNCHANGED <<answerVars, storeVars, sphase, upstream, upos, full_response, sources, cancelled>>

\* pipeline.py:286-302, after the loop: the sources event
EmitSources ==
    /\ sphase = "tokens" /\ ~cancelled
    /\ tokens = <<>>
    /\ events' = Append(events, SourcesEvent(sources))
    /\ sphase' = "finally"
    /\ UNCHANGED <<answerVars, storeVars, upstream, upos, full_response, tokens,
                   full_answer_so_far, sources, cancelled>>

\* Mutant: the response is closed without the end event
FinallySilent ==
    /\ sphase = "finally" /\ ~cancelled
    /\ sphase' = "closed"
    /\ UNCHANGED <<answerVars, storeVars, upstream, upos, full_response, tokens,
                   full_answer_so_far, events, sources, cancelled>>

\* app.py:348-352, the finally clause of event_generator
Finally ==
    /\ sphase = "finally" /\ ~cancelled
    /\ events' = Append(events, EndEvent)
    /\ sphase' = "closed"
    /\ UNCHANGED <<answerVars, storeVars, upstream, upos, full_response, tokens,
                   full_answer_so_far, sources, cancelled>>

\* The client disconnects and the response is cancelled
Cancel ==
    /\ sphase \in {"retrieve", "llm", "tokens", "finally"} /\ ~cancelled
    /\ cancelled' = TRUE
    /\ UNCHANGED <<answerVars, storeVars, sphase, upstream, upos, full_response, tokens,
                   full_answer_so_far, events, sources>>

\* The cancellation reaches event_generator where it is suspended, inside the
\* try statement: no except clause takes it (it is not an Exception) and the
\* finally clause of app.py:348-352 runs, with its yield
CancelledFinally ==
    /\ cancelled /\ sphase \in {"llm", "tokens", "finally"}
    /\ events' = Append(events, EndEvent)
    /\ sphase' = "closed"
    /\ UNCHANGED <<answerVars, storeVars, upstream, upos, full_response, tokens,
                   full_answer_so_far, sources, cancelled>>

\* The cancellation comes before event_generator has been started: none of
\* its code runs
Abandoned ==
    /\ cancelled /\ sphase = "retrieve"
    /\ sphase' = "closed"
    /\ UNCHANGED <<answerVars, storeVars, upstream, upos, full_response, tokens,
                   full_answer_so_far, events, sources, cancelled>>

StreamQueries == {<<"refund">>}

NextStream ==
    \/ \E up \in Upstreams : StartStream(up)
    \/ \E query \in StreamQueries, req_k \in {0, 1}, document_ids \in SUBSET {1} :
          Retrieve(query, req_k, document_ids)
    \/ RetrieveRaises(TimeoutMessage)
    \/ LlmChunk
    \/ LlmRaises
    \/ LlmEnds
    \/ NextToken
    \/ EmitSources
    \/ Finally
    \/ Cancel
    \/ CancelledFinally
    \/ Abandoned

SpecStream == Init /\ [][NextStream]_vars

-----------------------------------------------------------------------------
(* Properties of the streaming answer *)

Terminals(evs) == {i \in 1..Len(evs) : evs[i].type \in {"sources", "error"}}

TokenEvents(evs) == SelectSeq(evs, LAMBDA e : e.type = "token")

\* The request has run to its end without a disconnect
Completed == sphase = "closed" /\ ~cancelled

UpstreamRaised == upos > 0 /\ upstream[upos].kind = "raise"

\* C16: when the generation call has raised, the request ends with an error
\* event that carries the error text, and has no sources event.
C16_UpstreamErrorIsErrorEvent ==
    (Completed /\ UpstreamRaised) =>
        /\ \E i \in 1..Len(events) :
              events[i].type = "error" /\ Contains(events[i].content, upstream[upos].content)
        /\ \A i \in 1..Len(events) : events[i].type # "sources"

\* C17: once the request is cancelled, no upstream item is consumed and no
\* event is emitted.
C17_NothingAfterCancel ==
    [][cancelled => (events' = events /\ upos' = upos)]_vars

\* s is t with some of its elements left out
RECURSIVE IsSubsequence(_, _)
IsSubsequence(s, t) ==
    IF s = <<>> THEN TRUE
    ELSE IF t = <<>> THEN FALSE
    ELSE IF Head(s) = Head(t) THEN IsSubsequence(Tail(s), Tail(t))
    ELSE IsSubsequence(s, Tail(t))

\* The contents the generation service has sent, in order
UpstreamTokens ==
    LET sent == SelectSeq(SubSeq(upstream, 1, upos),
                          LAMBDA item : item.kind = "chunk" /\ item.content # <<>>)
    IN  [i \in 1..Len(sent) |-> sent[i].content]

\* C18: when the generation call has ended without raising, the token events
\* are upstream tokens, one event per token and in upstream order, and the
\* assembled answer is their concatenation.
C18_TokenEventsAreUpstreamTokens ==
    (sphase \in {"finally", "closed"} /\ ~cancelled /\ ~UpstreamRaised) =>
        LET emitted == [i \in 1..Len(TokenEvents(events)) |-> TokenEvents(events)[i].content]
        IN  /\ IsSubsequence(emitted, UpstreamTokens)
            /\ full_answer_so_far = Concat(emitted)

-----------------------------------------------------------------------------
(* The loop of answer_query_stream over the tokens of a generation stream *)
(* that yields more than one token                                        *)

\* A token of 101 characters
LongToken == LongLine \o LongLine \o LongLine \o LongLine \o LongLine \o <<".">>

\* Words of the long token, with the spaces around them
RepeatedWords == <<" ", "c", "a", "t", " ", "s", "a", "t", " ">>

\* A word of three characters of the long token
RepeatedShortWord == <<"c", "a", "t">>

\* Words the long token does not hold
NewWords == <<"d", "o", "g", "s">>

MaxTokens == 4    \* tokens of one generation stream

TokenContents == {LongToken, RepeatedWords, RepeatedShortWord, NewWords, <<>>}

TokenStreams == SeqsUpTo(TokenContents, MaxTokens)

\* pipeline.py:262-267, the loop is about to take the first token
InitFilter ==
    /\ InitAnswer
    /\ idxFile = NoIndexFile
    /\ metaFile = NoMetaFile
    /\ pc = [p \in Callers |-> "idle"]
    /\ op = [p \in Callers |-> NoOp]
    /\ loc = [p \in Callers |-> NoLoc]
    /\ sphase = "tokens"
    /\ upstream = <<>>
    /\ upos = 0
    /\ full_response = <<>>
    /\ tokens \in TokenStreams
    /\ full_answer_so_far = <<>>
    /\ events = <<>>
    /\ sources = <<>>
    /\ cancelled = FALSE

NextFilter == NextToken \/ EmitSources \/ Finally

SpecFilter == InitFilter /\ [][NextFilter]_vars

\* The loop takes a token that is not empty
TakesToken ==
    /\ sphase = "tokens" /\ tokens # <<>> /\ Head(tokens) # <<>>
    /\ tokens' = Tail(tokens)

-----------------------------------------------------------------------------
(* The batch post-process *)

\* The generation call has ended and its text has been post-processed
PostProcessed ==
    sphase = "tokens" /\ Len(tokens) = 1 /\ upos = Len(upstream) /\ ~UpstreamRaised

\* Line i is blank or short, or no earlier line is the same line in another case
KeptLine(lines, i) ==
    \/ strip(lines[i]) = <<>>
    \/ Len(strip(lines[i])) < 20
    \/ \A j \in 1..(i - 1) : lower(strip(lines[j])) # lower(strip(lines[i]))

RECURSIVE KeptLines(_, _)
KeptLines(lines, i) ==
    IF i > Len(lines) THEN <<>>
    ELSE IF KeptLine(lines, i) THEN <<lines[i]>> \o KeptLines(lines, i + 1)
    ELSE KeptLines(lines, i + 1)

\* C20: the post-processed text is made of the lines of the generated text, in
\* their order, leaving out only the lines of 20 characters or more (stripped)
\* that repeat an earlier line up to case and surrounding blanks.
C20_PostProcessKeepsFirstLongLines ==
    PostProcessed =>
        tokens[1] = JoinLines(KeptLines(SplitLines(full_response, <<>>), 1))

C20_Witness ==
    /\ PostProcessed
    /\ full_response = LongLine \o <<"\n">> \o ShortLabel \o <<"\n">>
                       \o LongLineCapitals \o <<"\n">> \o ShortLabel \o <<"\n">>
    /\ tokens[1] = LongLine \o <<"\n">> \o ShortLabel \o <<"\n">> \o ShortLabel \o <<"\n">>

-----------------------------------------------------------------------------
(***************************************************************************)
(* Part 3: the scorers of ai_engine/utils.  compute_confidence and         *)
(* detect_hallucination are functions of an answer and a list of sources.  *)
(* A source is a dict: a key it does not hold is a field the record does   *)
(* not have.  Numbers are exact fractions: a score is counted in           *)
(* twentieths as in Part 1, a cosine similarity in ten-thousandths, a      *)
(* value rounded to n decimals in units of 10^-n.  The cosine similarities *)
(* come from the embedding model, which is outside the code: the model     *)
(* draws them, the same value for the same text and 1 for the answer's own *)
(* text.                                                                   *)
(***************************************************************************)

\* dict.get(key, default)
Get(d, key, default) == IF key \in DOMAIN d THEN d[key] ELSE default

\* round(num / den * unit): to the nearest, ties to the even neighbour
RoundDiv(num, den) ==
    LET q == num \div den
        r == num % den
    IN  IF 2 * r > den THEN q + 1
        ELSE IF 2 * r < den THEN q
        ELSE IF q % 2 = 0 THEN q ELSE q + 1

RECURSIVE SumOver(_, _)
SumOver(f, n) == IF n = 0 THEN 0 ELSE f[n] + SumOver(f, n - 1)

\* round(num / den * unit) for an even unit, the whole part taken out first
RoundScaled(num, den, unit) == unit * (num \div den) + RoundDiv(unit * (num % den), den)

RECURSIVE GCD(_, _)
GCD(a, b) == IF b = 0 THEN a ELSE GCD(b, a % b)

\* The least common multiple of f[1..n]
RECURSIVE LCMOver(_, _)
LCMOver(f, n) ==
    IF n = 0 THEN 1
    ELSE LET rest == LCMOver(f, n - 1) IN (rest \div GCD(rest, f[n])) * f[n]

MaxOver(f) == CHOOSE x \in {f[i] : i \in DOMAIN f} : \A i \in DOMAIN f : f[i] <= x

(* compute_confidence, utils/confidence.py *)

DefaultConfidence == 20     \* confidence.py:3, 0.2 in hundredths
ConfidenceCap == 95         \* confidence.py:13, 0.95 in hundredths
DefaultScore == 20          \* confidence.py:6, s.get("score", 1.0) in twentieths
LengthDivisor == 300        \* confidence.py:10
LengthFactorCap == 10       \* confidence.py:10

\* Mutant: the confidence is returned as computed
Unclamped(num, den) == RoundScaled(num, den, 100)

\* confidence.py:13, round(min(confidence, 0.95), 2) of confidence = num / den
Clamped(num, den) ==
    IF RoundScaled(num, den, 100) >= ConfidenceCap /\ 20 * num >= (ConfidenceCap \div 5) * den
    THEN ConfidenceCap
    ELSE RoundScaled(num, den, 100)

\* confidence.py:1-13, the result in hundredths
compute_confidence(srcs, answer) ==
    IF srcs = <<>> \/ answer = <<>> THEN DefaultConfidence
    ELSE LET n == Len(srcs)
             \* 1 / (1 + score) = 20 / (20 + twentieths)
             den_of == [i \in 1..n |-> 20 + Get(srcs[i], "score", DefaultScore)]
             D == LCMOver(den_of, n)
             \* sum(scores) = N / D
             N == SumOver([i \in 1..n |-> 20 * (D \div den_of[i])], n)
             \* length_factor = length / LengthDivisor
             length == Min(Len(answer), LengthFactorCap * LengthDivisor)
             \* 0.6 * avg_relevance + 0.4 * length_factor
             num == 6 * N * LengthDivisor + 4 * length * D * n
             den == 10 * D * n * LengthDivisor
         IN  Clamped(num, den)

(* detect_hallucination, utils/hallucination.py *)

Punctuation == {".", ":", ",", "[", "]"}

\* re.findall(r'\w+', text): the maximal runs of word characters
findall_words(text) ==
    LET IsWord(i) == text[i] \notin Whitespace \cup Punctuation
        starts == {i \in 1..Len(text) : IsWord(i) /\ (i = 1 \/ ~IsWord(i - 1))}
        EndOf(i) == CHOOSE j \in i..Len(text) :
                        /\ \A m \in i..j : IsWord(m)
                        /\ j = Len(text) \/ ~IsWord(j + 1)
    IN  {SubSeq(text, i, EndOf(i)) : i \in starts}

\* hallucination.py:55
stop_words ==
    {<<"t", "h", "e">>, <<"a">>, <<"a", "n">>, <<"a", "n", "d">>,
     <<"o", "r">>, <<"b", "u", "t">>, <<"i", "n">>, <<"o", "n">>,
     <<"a", "t">>, <<"t", "o">>, <<"f", "o", "r">>, <<"o", "f">>,
     <<"w", "i", "t", "h">>, <<"b", "y">>, <<"f", "r", "o", "m">>,
     <<"i", "s">>, <<"a", "r", "e">>, <<"w", "a", "s">>,
     <<"w", "e", "r", "e">>, <<"b", "e">>, <<"b", "e", "e", "n">>,
     <<"b", "e", "i", "n", "g">>, <<"h", "a", "v", "e">>, <<"h", "a", "s">>,
     <<"h", "a", "d">>, <<"d", "o">>, <<"d", "o", "e", "s">>,
     <<"d", "i", "d">>, <<"w", "i", "l", "l">>, <<"w", "o", "u", "l", "d">>,
     <<"s", "h", "o", "u", "l", "d">>, <<"c", "o", "u", "l", "d">>,
     <<"m", "a", "y">>, <<"m", "i", "g", "h", "t">>, <<"m", "u", "s", "t">>,
     <<"c", "a", "n">>, <<"t", "h", "i", "s">>, <<"t", "h", "a", "t">>,
     <<"t", "h", "e", "s", "e">>, <<"t", "h", "o", "s", "e">>, <<"i">>,
     <<"y", "o", "u">>, <<"h", "e">>, <<"s", "h", "e">>, <<"i", "t">>,
     <<"w", "e">>, <<"t", "h", "e", "y">>, <<"w", "h", "a", "t">>,
     <<"w", "h", "i", "c", "h">>, <<"w", "h", "o">>, <<"w", "h", "e", "n">>,
     <<"w", "h", "e", "r", "e">>, <<"w", "h", "y">>, <<"h", "o", "w">>}

LowRiskBelow == 300         \* hallucination.py:87, 0.3 in thousandths
MediumRiskBelow == 600      \* hallucination.py:89, 0.6 in thousandths

\* hallucination.py:85-92, for the score num / den
_get_risk_level(num, den) ==
    IF 1000 * num < LowRiskBelow * den THEN "low"
    ELSE IF 1000 * num < MediumRiskBelow * den THEN "medium"
    ELSE "high"

\* Mutant: the text of every source, empty when it has none
every_source_text(srcs) == [i \in 1..Len(srcs) |-> Get(srcs[i], "text", <<>>)]

\* hallucination.py:28
source_texts_of(srcs) ==
    LET with_text == SelectSeq(srcs, LAMBDA s : Get(s, "text", <<>>) # <<>>)
    IN  [i \in 1..Len(with_text) |-> with_text[i].text]

\* hallucination.py:49-62
keyword_overlap(answer, source_texts) ==
    LET answer_words == findall_words(lower(answer)) \ stop_words
        source_words ==
            UNION {findall_words(lower(source_texts[i])) : i \in DOMAIN source_texts}
                \ stop_words
    IN  [num |-> IF answer_words = {} THEN 0 ELSE Cardinality(answer_words \cap source_words),
         den |-> IF answer_words = {} THEN 1 ELSE Cardinality(answer_words)]

\* hallucination.py:8-82; similarities[i] is the cosine of the answer and
\* source text i.  The scores are in thousandths.
detect_hallucination(answer, srcs, similarities) ==
    IF answer = <<>> \/ srcs = <<>>
    THEN [hallucination_score |-> 0, alignment_score |-> 0, risk_level |-> "low",
          embed_calls |-> 0]
    ELSE IF source_texts_of(srcs) = <<>>
    THEN [hallucination_score |-> 900, alignment_score |-> 100, risk_level |-> "high",
          embed_calls |-> 0]
    ELSE LET source_texts == source_texts_of(srcs)
             n == Len(source_texts)
             max_similarity == MaxOver(similarities)
             sum_similarity == SumOver(similarities, n)
             overlap == keyword_overlap(answer, source_texts)
             \* alignment_score = 0.6 * max + 0.3 * sum / n + 0.1 * overlap
             den == 100000 * n * overlap.den
             alignment == 6 * max_similarity * n * overlap.den
                              + 3 * sum_similarity * overlap.den
                              + 10000 * overlap.num * n
             hallucination == den - alignment
         IN  [hallucination_score |-> RoundDiv(hallucination, den \div 1000),
              alignment_score |-> RoundDiv(alignment, den \div 1000),
              risk_level |-> _get_risk_level(hallucination, den),
              embed_calls |-> 2]

(* The calls *)

MaxSources == 2     \* sources of one call
MaxQueryK == 2      \* largest k of a /query request

\* An answer of 303 characters
LongAnswer == LongToken \o LongToken \o LongToken

Answers == {<<>>, <<"a">>, LongLine, ShortLabel, LongAnswer}

\* Hits of search_embeddings, and the dicts a client may send to /critique
SourceItems ==
    {[text |-> LongLine, score |-> 0], [text |-> ShortLabel, score |-> BoostTwentieths],
     [text |-> LongLineCapitals], [score |-> 20], [text |-> <<>>, score |-> 30]}

SourceLists == SeqsUpTo(SourceItems, MaxSources)

\* Cosine similarities the embedding model yields, in ten-thousandths
Similarities == {-500, 2000, 7782, 10000}

\* The embedding model is a function of the text
SimilaritiesFor(answer, source_texts) ==
    {sims \in [1..Len(source_texts) -> Similarities] :
        /\ \A i, j \in 1..Len(source_texts) :
              source_texts[i] = source_texts[j] => sims[i] = sims[j]
        /\ \A i \in 1..Len(source_texts) :
              (source_texts[i] = answer) <=> (sims[i] = 10000)}

CallConfidence(srcs, answer) ==
    /\ scorer_call = NoCall
    /\ scorer_call' = [fn |-> "compute_confidence", answer |-> answer, sources |-> srcs,
                       similarities |-> <<>>]
    /\ scorer_result' = [value |-> compute_confidence(srcs, answer)]
    /\ embed_calls' = 0
    /\ UNCHANGED <<storeVars, streamVars, q_phase, q_req, q_llm, q_docs, q_answer,
                   q_response, memory_store, chat, mmr_call>>

CallHallucination(answer, srcs, similarities) ==
    LET result == detect_hallucination(answer, srcs, similarities)
    IN  /\ scorer_call = NoCall
        /\ scorer_call' = [fn |-> "detect_hallucination", answer |-> answer,
                           sources |-> srcs, similarities |-> similarities]
        /\ scorer_result' = [hallucination_score |-> result.hallucination_score,
                             alignment_score |-> result.alignment_score,
                             risk_level |-> result.risk_level]
        /\ embed_calls' = result.embed_calls
        /\ UNCHANGED <<storeVars, streamVars, q_phase, q_req, q_llm, q_docs, q_answer,
                       q_response, memory_store, chat, mmr_call>>

NextScore ==
    \/ \E srcs \in SourceLists, answer \in Answers : CallConfidence(srcs, answer)
    \/ \E srcs \in SourceLists, answer \in Answers :
          \E similarities \in SimilaritiesFor(answer, source_texts_of(srcs)) :
             CallHallucination(answer, srcs, similarities)

SpecScore == Init /\ [][NextScore]_vars

-----------------------------------------------------------------------------
(* Properties of the scorers *)

ConfidenceCalled == scorer_call.fn = "compute_confidence"

HallucinationCalled == scorer_call.fn = "detect_hallucination"

\* C21: compute_confidence returns 0.2 when the source list or the answer is
\* empty, and a value from 0 to 0.95 for every other input.
C21_ConfidenceDefaultAndRange ==
    ConfidenceCalled =>
        IF scorer_call.sources = <<>> \/ scorer_call.answer = <<>>
        THEN scorer_result.value = 20
        ELSE scorer_result.value >= 0 /\ scorer_result.value <= 95

\* A long answer on an exact match: the cap applies
C21_Witness ==
    /\ ConfidenceCalled
    /\ scorer_call.answer = LongAnswer
    /\ scorer_call.sources = <<[text |-> LongLine, score |-> 0]>>
    /\ scorer_result.value = 95


\* The answer and at least one source text are there to compare
NonDegenerate ==
    /\ HallucinationCalled
    /\ scorer_call.answer # <<>> /\ source_texts_of(scorer_call.sources) # <<>>

ScoreInRange ==
    NonDegenerate =>
        scorer_result.hallucination_score >= 0 /\ scorer_result.hallucination_score <= 1000

LabelMatchesReportedScore ==
    NonDegenerate =>
        /\ scorer_result.risk_level = "low" <=> scorer_result.hallucination_score < 300
        /\ scorer_result.risk_level = "medium" <=>
              (scorer_result.hallucination_score >= 300
                  /\ scorer_result.hallucination_score < 600)
        /\ scorer_result.risk_level = "high" <=> scorer_result.hallucination_score >= 600

\* C22: for a non-degenerate input the reported hallucination score is between
\* 0 and 1, and the reported risk label is low exactly when the reported score
\* is below 0.3, medium when it is from 0.3 to below 0.6, high otherwise.
C22_ScoreRangeAndRiskCutoffs == ScoreInRange /\ LabelMatchesReportedScore


\* C23: detect_hallucination reports score 0.0, alignment 0.0 and risk low
\* when the answer or the source list is empty, and score 0.9, alignment 0.1
\* and risk high when both are there but no source carries a text; neither
\* case calls the embedding model.
C23_DegenerateReports ==
    HallucinationCalled =>
        /\ (scorer_call.answer = <<>> \/ scorer_call.sources = <<>>) =>
              /\ scorer_result = [hallucination_score |-> 0, alignment_score |-> 0,
                                  risk_level |-> "low"]
              /\ embed_calls = 0
        /\ (/\ scorer_call.answer # <<>> /\ scorer_call.sources # <<>>
            /\ \A i \in 1..Len(scorer_call.sources) :
                  Get(scorer_call.sources[i], "text", <<>>) = <<>>) =>
              /\ scorer_result = [hallucination_score |-> 900, alignment_score |-> 100,
                                  risk_level |-> "high"]
              /\ embed_calls = 0

C23_Witness ==
    /\ HallucinationCalled
    /\ scorer_call.answer = ShortLabel
    /\ scorer_call.sources = <<[score |-> 20], [text |-> <<>>, score |-> 30]>>
    /\ scorer_result.hallucination_score = 900
    /\ embed_calls = 0

-----------------------------------------------------------------------------
(***************************************************************************)
(* Part 4: one request of the /query route, pipeline.answer_query.  The    *)
(* index the request reads is one that sequential index_document calls     *)
(* leave behind.                                                           *)
(***************************************************************************)

\* llm.py:51
GeminiErrorPrefix ==
    <<"[", "E", "R", "R", "O", "R", " ", "c", "a", "l", "l", "i", "n", "g",
    " ", "G", "e", "m", "i", "n", "i", " ", "A", "P", "I", "]", " ">>

\* What llm.invoke does with the prompt: a result with a content, or an exception
LlmReplies ==
    {[kind |-> "content", text |-> LongLine], [kind |-> "content", text |-> <<>>],
     [kind |-> "raise", text |-> TimeoutMessage]}

Sessions == {"s1", "s2"}

\* pipeline.py:34-88 run to its end on the index files holding `pair`
Indexed(pair, d, content) ==
    LET chunks == chunk_text(content)
    IN  IF chunks = <<>> THEN pair
        ELSE AddTo(pair, embed_texts(chunks), BuildMetadatas(d, chunks))

\* What index_document(1, ...) then index_document(2, ...) leave in the files
Snapshots ==
    {Indexed(Indexed([index |-> _empty_index, metadata |-> <<>>], 1, c1), 2, c2) :
        c1 \in Contents, c2 \in {<<>>, <<<<"refund">>>>}}

InitQuery ==
    /\ InitAnswer
    /\ \E pair \in Snapshots :
          IF pair.metadata = <<>>
          THEN idxFile = NoIndexFile /\ metaFile = NoMetaFile
          ELSE idxFile = IndexFileOf(pair.index) /\ metaFile = MetaFileOf(pair.metadata)
    /\ pc = [p \in Callers |-> "idle"]
    /\ op = [p \in Callers |-> NoOp]
    /\ loc = [p \in Callers |-> NoLoc]
    /\ sphase = "idle"
    /\ upstream = <<>>
    /\ upos = 0
    /\ full_response = <<>>
    /\ tokens = <<>>
    /\ full_answer_so_far = <<>>
    /\ events = <<>>
    /\ sources = <<>>
    /\ cancelled = FALSE

\* retriever.py:68-72 and vector_store.py:174-177: the number of candidates
\* index.search is asked for when the retriever is built with k
RetrieverSearchK(k, document_ids, index) == SearchK(k * 3, document_ids, index)

\* retriever.py:57-81 on the persisted index: search_embeddings(k * 3), then
\* the first k hits as documents
RetrievedDocs(query, k, document_ids) ==
    LET pair == load_index_and_metadata(ReadIndex(idxFile), ReadMetadata(metaFile))
        q == embed_text(query)
    IN  IF ntotal(pair.index) = 0 THEN {<<>>}
        ELSE {_get_relevant_documents(
                  SearchResult(cands, pair.index, pair.metadata, q, document_ids, k * 3), k) :
                 cands \in FaissSearch(pair.index, q,
                                       RetrieverSearchK(k, document_ids, pair.index))}

\* app.py:159-184, a request arrives at POST /query
StartQuery(session_id, query, k, document_ids, reply) ==
    /\ q_phase = "idle"
    /\ q_phase' = "retrieve"
    /\ q_req' = [session_id |-> session_id, query |-> query, k |-> k,
                 document_ids |-> document_ids]
    /\ q_llm' = reply
    /\ UNCHANGED <<storeVars, streamVars, scorer_call, scorer_result, embed_calls,
                   q_docs, q_answer, q_response, memory_store, chat, mmr_call>>

\* pipeline.py:146-168, the retrieval
QueryRetrieve ==
    /\ q_phase = "retrieve"
    /\ q_docs' \in RetrievedDocs(q_req.query, q_req.k, q_req.document_ids)
    /\ q_phase' = "generate"
    /\ UNCHANGED <<storeVars, streamVars, scorer_call, scorer_result, embed_calls,
                   q_req, q_llm, q_answer, q_response, memory_store, chat, mmr_call>>

\* Mutant: generate_answer without its try statement
GenerateUnguarded ==
    /\ q_phase = "generate"
    /\ IF q_llm.kind = "raise"
       THEN q_phase' = "failed" /\ UNCHANGED q_answer
       ELSE q_phase' = "save" /\ q_answer' = q_llm.text
    /\ UNCHANGED <<storeVars, streamVars, scorer_call, scorer_result, embed_calls,
                   q_req, q_llm, q_docs, q_response, memory_store, chat, mmr_call>>

\* llm.py:20-51 called at pipeline.py:171-176
Generate ==
    /\ q_phase = "generate"
    /\ q_answer' = IF q_llm.kind = "raise" THEN GeminiErrorPrefix \o q_llm.text
                   ELSE q_llm.text
    /\ q_phase' = "save"
    /\ UNCHANGED <<storeVars, streamVars, scorer_call, scorer_result, embed_calls,
                   q_req, q_llm, q_docs, q_response, memory_store, chat, mmr_call>>

HumanMessage(content) == [type |-> "human", content |-> content]

AIMessage(content) == [type |-> "ai", content |-> content]

\* Mutant: the AI message is stored before the user message
save_turn_ai_first(store, session_id, user_message, ai_message) ==
    LET with_ai == IF ai_message # <<>>
                   THEN Append(store[session_id], AIMessage(ai_message))
                   ELSE store[session_id]
        with_user == IF user_message # <<>>
                     THEN Append(with_ai, HumanMessage(user_message))
                     ELSE with_ai
    IN  [store EXCEPT ![session_id] = with_user]

\* memory.py:42-52
save_turn(store, session_id, user_message, ai_message) ==
    LET with_user == IF user_message # <<>>
                     THEN Append(store[session_id], HumanMessage(user_message))
                     ELSE store[session_id]
        with_ai == IF ai_message # <<>> THEN Append(with_user, AIMessage(ai_message))
                   ELSE with_user
    IN  [store EXCEPT ![session_id] = with_ai]

\* pipeline.py:189
SaveTurn ==
    /\ q_phase = "save"
    /\ memory_store' = save_turn(memory_store, q_req.session_id, q_req.query, q_answer)
    /\ q_phase' = "return"
    /\ UNCHANGED <<storeVars, streamVars, scorer_call, scorer_result, embed_calls,
                   q_req, q_llm, q_docs, q_answer, q_response, chat, mmr_call>>

\* pipeline.py:192-202
QueryReturn ==
    /\ q_phase = "return"
    /\ q_response' = [answer |-> q_answer,
                      sources |-> [i \in 1..Len(q_docs) |-> q_docs[i].metadata]]
    /\ q_phase' = "returned"
    /\ UNCHANGED <<storeVars, streamVars, scorer_call, scorer_result, embed_calls,
                   q_req, q_llm, q_docs, q_answer, memory_store, chat, mmr_call>>

QueryTexts == {<<"refund">>, <<>>}

NextQuery ==
    \/ \E session_id \in Sessions, query \in QueryTexts, k \in 1..MaxQueryK,
          document_ids \in SUBSET DocIds, reply \in LlmReplies :
             StartQuery(session_id, query, k, document_ids, reply)
    \/ QueryRetrieve
    \/ Generate
    \/ SaveTurn
    \/ QueryReturn

SpecQuery == InitQuery /\ [][NextQuery]_vars

\* C24: a failure of the generation call does not propagate: the request is
\* never left failed, and when it has returned its answer carries the error
\* text and its sources are the documents retrieved.
C24_GenerationFailureIsAnswered ==
    q_llm.kind = "raise" =>
        /\ q_phase # "failed"
        /\ q_phase \in {"save", "return", "returned"} => Contains(q_answer, q_llm.text)
        /\ q_phase = "returned" =>
              /\ q_response.answer = q_answer
              /\ Len(q_response.sources) = Len(q_docs)
              /\ \A i \in 1..Len(q_docs) : q_response.sources[i] = q_docs[i].metadata

C24_Witness ==
    /\ q_phase = "returned"
    /\ q_llm.kind = "raise"
    /\ q_response.answer = GeminiErrorPrefix \o TimeoutMessage
    /\ Len(q_response.sources) >= 1

-----------------------------------------------------------------------------
(* Properties of update_document and index_document *)

RecordsOf(metadata, d) == SelectSeq(metadata, LAMBDA m : m.document_id = d)

RecordsOfOthers(metadata, d) == SelectSeq(metadata, LAMBDA m : m.document_id # d)

\* C25: while update_document(d, content) runs, the records of the other
\* documents stay as they are, in their order; when it completes, the records
\* of d are those of the chunks of the new content, one per chunk in chunk
\* order, and the vector file holds the embedding of every record's text.
C25_UpdateReplacesRecords ==
    [][\A p \in Callers :
          (op[p].name = "update_document" /\ pc[p] \notin {"idle", "done"}) =>
              LET d == op[p].document_id
                  before == ReadMetadata(metaFile)
                  after == ReadMetadata(metaFile')
              IN  /\ RecordsOfOthers(after, d) = RecordsOfOthers(before, d)
                  /\ pc'[p] = "done" =>
                        /\ RecordsOf(after, d) = op[p].metadatas
                        /\ \A i \in 1..Len(op[p].metadatas) :
                              /\ op[p].metadatas[i].chunk_id = i - 1
                              /\ op[p].metadatas[i].document_id = d
                        /\ after # <<>> => ReadIndex(idxFile') = RebuiltIndex(after)
                        /\ after = <<>> => PersistedVectors' = 0]_vars

\* An update has completed next to the record of another document
C25_Witness ==
    \E p \in Callers :
        /\ op[p].name = "update_document" /\ pc[p] = "done" /\ loc[p].outcome = "ok"
        /\ LET metadata == ReadMetadata(metaFile)
               d == op[p].document_id
           IN  /\ Len(metadata) = 2
               /\ metadata[1].document_id # d
               /\ metadata[2] = op[p].metadatas[1]


\* The content is empty or holds nothing but blank paragraphs
AllBlank(content) == \A i \in 1..Len(content) : content[i] = Blank

\* Caller p starts index_document(d, content)
StartsIndexDocument(p, d, content) ==
    /\ pc[p] = "idle"
    /\ op'[p].name = "index_document" /\ op'[p].document_id = d
    /\ op'[p].metadatas = BuildMetadatas(d, chunk_text(content))

\* C26: index_document on an empty or whitespace-only content leaves the two
\* files as they are, reports the status failed and returns 0.
C26_NoChunksFailsWithoutWriting ==
    [][\A p \in Callers, d \in DocIds, content \in Contents :
          (AllBlank(content) /\ StartsIndexDocument(p, d, content)) =>
              /\ idxFile' = idxFile /\ metaFile' = metaFile
              /\ pc'[p] = "done"
              /\ loc'[p].statuses # <<>>
              /\ loc'[p].statuses[Len(loc'[p].statuses)] = "failed"
              /\ loc'[p].returned = 0]_vars

\* The call has ended on a store that holds records
C26_Witness ==
    \E p \in Callers :
        /\ op[p].name = "index_document" /\ pc[p] = "done"
        /\ loc[p].outcome = "no_chunks" /\ loc[p].returned = 0
        /\ PersistedRecords >= 1

-----------------------------------------------------------------------------
(***************************************************************************)
(* Part 5. The backend's chat: backend/api/chat.py                         *)
(*                                                                         *)
(* POST /chat/stream looks up which of the documents named in the request  *)
(* the user owns and forwards those ids to the engine's POST /stream.      *)
(* POST /chat does the same towards POST /query, but its body has no       *)
(* session_id (chat.py:106-111), a field QueryRequest requires             *)
(* (app.py:53), so the engine refuses it before any retrieval.             *)
(***************************************************************************)

\* current_user.id
Users == {1, 2}

\* The rows of the documents table: each upload is stored with its owner
Documents == {[id |-> 1, owner_id |-> 1], [id |-> 2, owner_id |-> 2]}

\* chat.py:198-205: the ids of the named documents the user owns
OwnedAmong(user_id, document_ids) ==
    {doc.id : doc \in {row \in Documents :
                          row.owner_id = user_id /\ row.id \in document_ids}}


\* chat.py:196-210: the document_ids of the engine request; the empty set
\* stands for both None and the empty list, which the engine does not tell
\* apart (vector_store.py:164, 174, 189)
forwarded_document_ids(user_id, document_ids) ==
    IF document_ids # {} THEN OwnedAmong(user_id, document_ids) ELSE {}

\* app.py:57, the k of a request that names none
ChatK == 5

\* chat.py:159-234 and app.py:326-340: a chat request arrives, its engine
\* request is sent and the engine starts to iterate event_generator
ChatStream(user_id, document_ids, up) ==
    /\ sphase = "idle"
    /\ sphase' = "retrieve"
    /\ upstream' = up
    /\ chat' = [user_id |-> user_id, document_ids |-> document_ids,
                forwarded |-> forwarded_document_ids(user_id, document_ids)]
    /\ UNCHANGED <<storeVars, upos, full_response, tokens, full_answer_so_far, events,
                   sources, cancelled, scorer_call, scorer_result, embed_calls,
                   q_phase, q_req, q_llm, q_docs, q_answer, q_response, memory_store, mmr_call>>

\* pipeline.py:205-264 for the engine request of the chat
ChatRetrieve(query) ==
    /\ chat # NoChat
    /\ Retrieve(query, ChatK, chat.forwarded)

MaxChatUpstream == 1

ChatUpstreams == {up \in Upstreams : Len(up) <= MaxChatUpstream}

NextChat ==
    \/ \E user_id \in Users, document_ids \in SUBSET DocIds, up \in ChatUpstreams :
          ChatStream(user_id, document_ids, up)
    \/ \E query \in StreamQueries : ChatRetrieve(query)
    \/ RetrieveRaises(TimeoutMessage)
    \/ LlmChunk
    \/ LlmRaises
    \/ LlmEnds
    \/ NextToken
    \/ EmitSources
    \/ Finally
    \/ Cancel
    \/ CancelledFinally
    \/ Abandoned

SpecChat == InitQuery /\ [][NextChat]_vars

-----------------------------------------------------------------------------
(* Properties of the chat *)

OwnerOf(d) == (CHOOSE row \in Documents : row.id = d).owner_id

Retrieved == sphase \notin {"idle", "retrieve"}

\* C27: when a chat request names at least one document id, every hit
\* retrieved for the answer is of a document that the request names and the
\* requesting user owns; a user who owns none of the named documents gets
\* no hit.
C27_HitsAreNamedAndOwned ==
    (chat # NoChat /\ chat.document_ids # {} /\ Retrieved) =>
        \A i \in 1..Len(sources) :
            /\ sources[i].document_id \in chat.document_ids
            /\ OwnerOf(sources[i].document_id) = chat.user_id


-----------------------------------------------------------------------------
(* Properties of concurrent and repeated indexing *)

\* Every dict of `metadatas` is in the list `metadata`
HasRecords(metadata, metadatas) ==
    \A i \in 1..Len(metadatas) : \E j \in 1..Len(metadata) : metadata[j] = metadatas[i]

\* The caller has returned from an add of its records
AddReturned(p) ==
    /\ pc[p] = "done" /\ loc[p].outcome = "ok" /\ loc[p].call = "add_embeddings"
    /\ op[p].name \in {"index_document", "add_embeddings"}

\* C28: when an index_document (or add_embeddings) call returns, the persisted
\* snapshot holds its records and still holds the records of every other
\* document whose add has returned and was persisted: no successful add is
\* lost to a concurrent one.
C28_NoSuccessfulAddIsLost ==
    [][\A p, q \in Callers :
          (/\ p # q
           /\ pc[p] = "write_meta" /\ AddReturned(p)'
           /\ AddReturned(q) /\ op[q].document_id # op[p].document_id
           /\ HasRecords(ReadMetadata(metaFile), op[q].metadatas)) =>
              /\ HasRecords(ReadMetadata(metaFile'), op[p].metadatas)
              /\ HasRecords(ReadMetadata(metaFile'), op[q].metadatas)]_vars


DistinctKeys(metadata) ==
    \A i, j \in 1..Len(metadata) : i < j => ChunkKey(metadata[i]) # ChunkKey(metadata[j])

\* C29: in every persisted snapshot no two metadata entries have the same
\* (document_id, chunk_id) pair, also after the same document has been
\* indexed again.
C29_KeysAreUnique == DistinctKeys(ReadMetadata(metaFile))


-----------------------------------------------------------------------------
(* Properties of the deduplication of hits *)

SameChunk(a, b) == a.document_id = b.document_id /\ a.chunk_id = b.chunk_id

\* The stored record of the first candidate that is of the chunk of `hit`
FirstCandidateOf(cands, metadata, hit) ==
    LET first == CHOOSE i \in 1..Len(cands) :
                    /\ SameChunk(metadata[cands[i]], hit)
                    /\ \A j \in 1..(i - 1) : ~SameChunk(metadata[cands[j]], hit)
    IN  metadata[cands[first]]

\* C30: no two hits of a search result have the same (document_id, chunk_id)
\* key, and the hit kept for a key is the first candidate with that key in
\* the order of index.search, nearest first.
C30_FirstCandidateOfEachKey ==
    \A p \in Callers :
        SearchDone(p) =>
            LET q == embed_text(op[p].query)
                n == SearchK(op[p].k, op[p].document_ids, loc[p].index)
            IN  /\ \A i, j \in 1..Len(loc[p].result) :
                      i < j => ~SameChunk(loc[p].result[i], loc[p].result[j])
                /\ ntotal(loc[p].index) # 0 =>
                      \E cands \in FaissSearch(loc[p].index, q, n) :
                          /\ loc[p].result = SearchResult(cands, loc[p].index,
                                 loc[p].metadata, q, op[p].document_ids, op[p].k)
                          /\ \A i \in 1..Len(loc[p].result) :
                                LET m == FirstCandidateOf(cands, loc[p].metadata,
                                                          loc[p].result[i])
                                IN  /\ loc[p].result[i].text = m.text
                                    /\ \A x \in 1..Len(loc[p].metadata) :
                                          SameChunk(loc[p].metadata[x], m) =>
                                              L2(q, embed_text(m.text))
                                                <= L2(q, embed_text(loc[p].metadata[x].text))

\* A search with room for two hits on an index holding two different records
\* of one chunk key, of which one is returned
C30_Witness ==
    \E p \in Callers :
        /\ SearchDone(p) /\ op[p].k >= 2 /\ op[p].document_ids = {}
        /\ Len(loc[p].result) >= 1
        /\ \E x, y \in 1..Len(loc[p].metadata) :
              /\ SameChunk(loc[p].metadata[x], loc[p].metadata[y])
              /\ L2(embed_text(op[p].query), embed_text(loc[p].metadata[x].text))
                   < L2(embed_text(op[p].query), embed_text(loc[p].metadata[y].text))
              /\ \E i \in 1..Len(loc[p].result) :
                    SameChunk(loc[p].result[i], loc[p].metadata[x])


-----------------------------------------------------------------------------
(* Properties of the retrieval of a query *)

PersistedPair == load_index_and_metadata(ReadIndex(idxFile), ReadMetadata(metaFile))

QueryRetrieved == q_phase \notin {"idle", "retrieve"}

\* F of the over-retrieval: 5 with a document filter, 2 without
FanOut(document_ids) == IF document_ids # {} THEN 5 ELSE 2

\* C31: the retrieval of a query with k asks the index for exactly
\* min(k * F, index size) candidates, F = 5 with a document filter and F = 2
\* without.
C31_RequestsKTimesF ==
    (QueryRetrieved /\ ntotal(PersistedPair.index) # 0) =>
        RetrieverSearchK(q_req.k, q_req.document_ids, PersistedPair.index)
          = Min(q_req.k * FanOut(q_req.document_ids), ntotal(PersistedPair.index))


-----------------------------------------------------------------------------
(***************************************************************************)
(* Part 6. The diversity reranking: retriever/rerank.py                    *)
(*                                                                         *)
(* Embeddings are vectors of norm 5 with integer coordinates, so that the  *)
(* cosine similarity of two of them is their dot product in 25ths.         *)
(* lambda_param is in tenths, a score in 250ths.  Indices count from 1.    *)
(***************************************************************************)

MmrEmbeddings == {<<5, 0>>, <<0, 5>>, <<3, 4>>, <<4, 3>>, <<-5, 0>>}

MaxCandidates == 3

MaxTopK == 4

LambdaParams == {0, 5, 10}

Dot(a, b) == a[1] * b[1] + a[2] * b[2]

\* sklearn's cosine_similarity of two rows
cosine_similarity(a, b) == Dot(a, b)

\* rerank.py:14, max([...], default=0)
diversity(doc_embs, i, selected) ==
    IF selected = <<>> THEN 0
    ELSE LET sims == {cosine_similarity(doc_embs[i], doc_embs[selected[n]]) :
                         n \in 1..Len(selected)}
         IN  CHOOSE m \in sims : \A x \in sims : x <= m

\* rerank.py:15
mmr_score(query_emb, doc_embs, lambda_param, i, selected) ==
    lambda_param * cosine_similarity(query_emb, doc_embs[i])
      - (10 - lambda_param) * diversity(doc_embs, i, selected)

\* rerank.py:18, max of the (score, i) tuples: the largest score, and among
\* equal scores the largest index
best_of(query_emb, doc_embs, lambda_param, candidates, selected) ==
    CHOOSE b \in candidates :
        \A i \in candidates :
            LET sb == mmr_score(query_emb, doc_embs, lambda_param, b, selected)
                si == mmr_score(query_emb, doc_embs, lambda_param, i, selected)
            IN  si < sb \/ (si = sb /\ i <= b)

\* rerank.py:11-20, the loop
RECURSIVE mmr_loop(_, _, _, _, _, _)
mmr_loop(query_emb, doc_embs, lambda_param, steps, candidates, selected) ==
    IF steps <= 0 THEN selected
    ELSE LET best == best_of(query_emb, doc_embs, lambda_param, candidates, selected)
         IN  mmr_loop(query_emb, doc_embs, lambda_param, steps - 1,
                      candidates \ {best}, Append(selected, best))

\* rerank.py:4-22.  cosine_similarity refuses an array without rows
\* (rerank.py:8), so mmr raises ValueError when doc_embs is empty
mmr(query_emb, doc_embs, lambda_param, top_k) ==
    IF doc_embs = <<>> THEN [outcome |-> "ValueError", selected |-> <<>>]
    ELSE [outcome |-> "ok",
          selected |-> mmr_loop(query_emb, doc_embs, lambda_param,
                                Min(top_k, Len(doc_embs)), 1..Len(doc_embs), <<>>)]

CallMmr(query_emb, doc_embs, lambda_param, top_k) ==
    LET r == mmr(query_emb, doc_embs, lambda_param, top_k)
    IN  /\ mmr_call = NoMmr
        /\ mmr_call' = [query_emb |-> query_emb, doc_embs |-> doc_embs,
                        lambda_param |-> lambda_param, top_k |-> top_k,
                        outcome |-> r.outcome, selected |-> r.selected]
        /\ UNCHANGED <<storeVars, streamVars, scorer_call, scorer_result, embed_calls,
                       q_phase, q_req, q_llm, q_docs, q_answer, q_response,
                       memory_store, chat>>

NextMmr ==
    \E query_emb \in MmrEmbeddings, doc_embs \in SeqsUpTo(MmrEmbeddings, MaxCandidates),
       lambda_param \in LambdaParams, top_k \in 0..MaxTopK :
          CallMmr(query_emb, doc_embs, lambda_param, top_k)

SpecMmr == Init /\ [][NextMmr]_vars

-----------------------------------------------------------------------------
(* Properties of mmr *)

MmrCalled == mmr_call # NoMmr

\* lambda * sim(query, c) - (1 - lambda) * the largest similarity of c to a
\* candidate of `chosen` (0 when there is none)
MarginalRelevance(c, chosen) ==
    LET e == mmr_call.doc_embs
        to_chosen == {Dot(e[c], e[s]) : s \in chosen}
        largest == IF chosen = {} THEN 0
                   ELSE CHOOSE m \in to_chosen : \A x \in to_chosen : x <= m
    IN  mmr_call.lambda_param * Dot(mmr_call.query_emb, e[c])
          - (10 - mmr_call.lambda_param) * largest

MmrSelectsGreedily ==
    LET sel == mmr_call.selected
        n == Len(mmr_call.doc_embs)
    IN  /\ Len(sel) = Min(mmr_call.top_k, n)
        /\ \A s \in 1..Len(sel) : sel[s] \in 1..n
        /\ \A s, t \in 1..Len(sel) : s < t => sel[s] # sel[t]
        /\ \A s \in 1..Len(sel) :
              LET chosen == {sel[t] : t \in 1..(s - 1)}
              IN  \A c \in (1..n) \ chosen :
                      MarginalRelevance(c, chosen) <= MarginalRelevance(sel[s], chosen)

\* C32: mmr returns min(top_k, number of candidates) pairwise-distinct
\* candidate indices, and the index chosen at each step attains the maximum,
\* over the candidates not yet selected, of lambda * sim(query, c) minus
\* (1 - lambda) * the largest similarity of c to a selected candidate.
C32_MmrReturnsGreedySelection ==
    MmrCalled => (mmr_call.outcome = "ok" /\ MmrSelectsGreedily)


-----------------------------------------------------------------------------
(* Properties of the redundancy filter *)

\* The hit lists search_embeddings can return for the engine request of the
\* chat, on the persisted index
ChatSearchResults ==
    LET pair == PersistedPair
        k == StreamK(ChatK)
    IN  IF ntotal(pair.index) = 0 THEN {<<>>}
        ELSE UNION {{SearchResult(cands, pair.index, pair.metadata, embed_text(query),
                                  chat.forwarded, k) :
                        cands \in FaissSearch(pair.index, embed_text(query),
                                              SearchK(k, chat.forwarded, pair.index))} :
                    query \in StreamQueries}

\* More than half of the characters of the text of `hit` occur in the text of
\* `kept`, both in lower case
OverlapsMoreThanHalf(hit, kept) ==
    LET current == lower(TextChars(hit.text))
        existing == lower(TextChars(kept.text))
        common == {i \in 1..Len(current) : \E j \in 1..Len(existing) : existing[j] = current[i]}
    IN  Len(current) > 0 /\ 2 * Cardinality(common) > Len(current)

\* `output` is `input` at the increasing positions `at`, and a position is
\* among them exactly when its hit overlaps no hit kept before it by more
\* than half
KeepsNonRedundant(input, output, at) ==
    /\ \A s, t \in 1..Len(output) : s < t => at[s] < at[t]
    /\ \A s \in 1..Len(output) : output[s] = input[at[s]]
    /\ \A i \in 1..Len(input) :
          (\E s \in 1..Len(output) : at[s] = i)
            <=> (\A s \in 1..Len(output) :
                    at[s] < i => ~OverlapsMoreThanHalf(input[i], input[at[s]]))

\* C33: the redundancy filter outputs a subsequence of the hit list in the
\* same order, keeps the first hit, keeps a later hit only if its overlap
\* ratio against every hit already kept is at most 0.5 and drops a hit only if
\* its ratio against some kept hit exceeds 0.5.
C33_FilterKeepsNonRedundantHits ==
    (chat # NoChat /\ Retrieved /\ (sources # <<>> \/ sphase = "llm")) =>
        \E input \in ChatSearchResults :
            /\ input # <<>> => (sources # <<>> /\ sources[1] = input[1])
            /\ \E at \in [1..Len(sources) -> 1..Len(input)] :
                  KeepsNonRedundant(input, sources, at)

\* Of three hits the filter has kept two: one was dropped after the first,
\* one kept
C33_Witness ==
    /\ chat # NoChat /\ chat.forwarded = {} /\ sphase = "llm"
    /\ ntotal(PersistedPair.index) = 3
    /\ Len(sources) = 2
    /\ \E input \in ChatSearchResults :
          /\ Len(input) = 3
          /\ \E i \in 2..3 : OverlapsMoreThanHalf(input[i], input[1])


-----------------------------------------------------------------------------
(* Properties of a suppressed token *)

EndsWith(s, suffix) ==
    Len(suffix) <= Len(s) /\ SubSeq(s, Len(s) - Len(suffix) + 1, Len(s)) = suffix

-----------------------------------------------------------------------------
(* Properties of the end of a stream *)

\* stream_llm_answer has yielded and the loop has not yet taken the token
GenerationEnded == sphase = "tokens" /\ Len(tokens) = 1

\* C35: when the generation stream has ended, normally or with an error,
\* every chunk it sent has been consumed and the one batch post-process of the
\* accumulated text has run: its result is in what stream_llm_answer yields.
C35_PostProcessRunsOnEveryEnd ==
    GenerationEnded =>
        /\ \A i \in 1..Len(upstream) : upstream[i].kind = "chunk" => i <= upos
        /\ Contains(tokens[1], JoinLines(KeptLines(SplitLines(full_response, <<>>), 1)))


EndEvents(evs) == {i \in 1..Len(evs) : evs[i].type = "end"}

\* C36: a response of /stream has at most one end event, nothing is emitted
\* after it, and a response that is closed without having been cancelled has
\* it as its last event, whether the stream completed or an exception was
\* raised.
C36_EndEventIsLast ==
    /\ Cardinality(EndEvents(events)) <= 1
    /\ \A i \in EndEvents(events) : i = Len(events) /\ sphase = "closed"
    /\ Completed => (events # <<>> /\ events[Len(events)].type = "end")

\* The retrieval raised: the error event, then the end event
C36_Witness ==
    /\ Completed
    /\ events = <<ErrorEvent(TimeoutMessage), EndEvent>>


-----------------------------------------------------------------------------
(* Properties of the statuses of index_document *)

IndexDocumentEnded(p) == op[p].name = "index_document" /\ pc[p] = "done"

LastOf(s) == s[Len(s)]

\* C37: when a run of index_document has ended, the last status it has
\* reported for the document is completed or failed, also when the embedding
\* or the index write has raised.
C37_EndsWithTerminalStatus ==
    \A p \in Callers :
        IndexDocumentEnded(p) =>
            /\ loc[p].statuses # <<>>
            /\ LastOf(loc[p].statuses) \in {"completed", "failed"}

IsPrefix(s, t) == Len(s) <= Len(t) /\ SubSeq(t, 1, Len(s)) = s

\* C38: the statuses a run of index_document has reported are a prefix of
\* processing, chunking, embedding, saving, completed or of processing,
\* chunking, failed; completed is among them only from the step that
\* persists the records of the document, and the chunk count reported is the
\* number of records that step has added.
C38_StatusesInOrder ==
    [][\A p \in Callers :
          op'[p].name = "index_document" =>
              /\ \/ IsPrefix(loc'[p].statuses,
                             <<"processing", "chunking", "embedding", "saving", "completed">>)
                 \/ IsPrefix(loc'[p].statuses, <<"processing", "chunking", "failed">>)
              /\ (loc'[p].statuses # <<>> /\ LastOf(loc'[p].statuses) = "completed"
                    /\ ~(op[p].name = "index_document" /\ pc[p] = "done")) =>
                    /\ pc[p] = "write_meta"
                    /\ HasRecords(ReadMetadata(metaFile'), op'[p].metadatas)
                    /\ loc'[p].chunk_count
                         = Len(ReadMetadata(metaFile')) - Len(ReadMetadata(metaFile))
                    /\ loc'[p].chunk_count = Len(op'[p].metadatas)]_vars

\* A run on a document of two chunks has reported completed, after an earlier
\* record had been stored
C38_Witness ==
    \E p \in Callers :
        /\ IndexDocumentEnded(p) /\ loc[p].outcome = "ok"
        /\ loc[p].statuses = <<"processing", "chunking", "embedding", "saving", "completed">>
        /\ loc[p].chunk_count = 2
        /\ PersistedRecords = 3


-----------------------------------------------------------------------------
(***************************************************************************)
(* Part 7. The backend's delete-document: backend/api/documents.py         *)
(*                                                                         *)
(* DELETE /documents/{doc_id} asks the engine to delete the chunks of the  *)
(* document, deletes the row of the document and answers with success.     *)
(***************************************************************************)

\* documents.py:202-229 when the engine serves DELETE /delete-document/{id}:
\* app.py:222-238 calls delete_document
BackendDeleteDocument(p, d) ==
    Begin(p, [NoOp EXCEPT !.name = "backend_delete", !.document_id = d], "delete_document")

\* documents.py:213-221 when the request to the engine fails (the engine is
\* down or answers with an error): the except clause logs, the row is deleted
\* and the answer is the same success
BackendDeleteEngineFails(p, d) ==
    /\ pc[p] = "idle"
    /\ op' = [op EXCEPT ![p] = [NoOp EXCEPT !.name = "backend_delete", !.document_id = d]]
    /\ pc' = [pc EXCEPT ![p] = "done"]
    /\ loc' = [loc EXCEPT ![p] = [NoLoc EXCEPT !.outcome = "ok"]]
    /\ UNCHANGED <<answerVars, streamVars, idxFile, metaFile>>

\* Documents are indexed and deleted through the backend, one request after
\* the other
NextBackend ==
    \/ \E d \in DocIds : IndexDocument(1, d, ContentOf(d), MaxRecords)
    \/ \E d \in DocIds : BackendDeleteDocument(1, d)
    \/ \E d \in DocIds : BackendDeleteEngineFails(1, d)
    \/ LoadMeta(1)
    \/ LoadIndex(1)
    \/ AddWriteIndex(1)
    \/ DeleteNothing(1)
    \/ DeleteWriteIndex(1)
    \/ WriteMeta(1)
    \/ Return(1)

SpecBackend == Init /\ [][NextBackend]_vars

\* The backend has answered the delete of a document with success
BackendDeleteReturned(p) ==
    pc[p] = "done" /\ op[p].name = "backend_delete" /\ loc[p].outcome = "ok"

\* No search on the pair, with or without document filter, returns a hit of d
NoChunkOf(pair, d) ==
    \A query \in Queries, k \in 1..MaxK, document_ids \in SUBSET DocIds :
        \A cands \in FaissSearch(pair.index, embed_text(query),
                                 SearchK(k, document_ids, pair.index)) :
            LET hits == SearchResult(cands, pair.index, pair.metadata,
                                     embed_text(query), document_ids, k)
            IN  \A i \in 1..Len(hits) : hits[i].document_id # d

\* C39: once the backend's delete of document d has returned success, no
\* search on the persisted index, with or without a document filter, returns
\* a chunk of d.
C39_DeletedDocumentIsNotFound ==
    \A p \in Callers :
        BackendDeleteReturned(p) => NoChunkOf(PersistedPair, op[p].document_id)


-----------------------------------------------------------------------------
(***************************************************************************)
(* Part 8. The history of the sessions: llm/memory.py                      *)
(*                                                                         *)
(* answer_query is the caller of save_turn: the requests of POST /query    *)
(* come one after the other, each saving its turn to its session.          *)
(***************************************************************************)

MaxTurns == 2

RECURSIVE StoredMessages(_)
StoredMessages(S) ==
    IF S = {} THEN 0
    ELSE LET s == CHOOSE x \in S : TRUE
         IN  Len(memory_store[s]) + StoredMessages(S \ {s})

\* app.py:159-184, the request has been answered and the next one can arrive
NextRequest ==
    /\ q_phase = "returned"
    /\ StoredMessages(Sessions) <= 2 * (MaxTurns - 1)
    /\ q_phase' = "idle"
    /\ UNCHANGED <<storeVars, streamVars, scorer_call, scorer_result, embed_calls,
                   q_req, q_llm, q_docs, q_answer, q_response, memory_store, chat,
                   mmr_call>>

NextMemory ==
    \/ \E session_id \in Sessions, query \in QueryTexts, reply \in LlmReplies :
          StartQuery(session_id, query, 1, {}, reply)
    \/ QueryRetrieve
    \/ Generate
    \/ SaveTurn
    \/ QueryReturn
    \/ NextRequest

SpecMemory == Init /\ [][NextMemory]_vars

-----------------------------------------------------------------------------
(* Properties of the history *)

\* The messages of a turn: the user's, then the AI's; a message that is None
\* or empty is no message
TurnMessages(user_message, ai_message) ==
    (IF user_message # <<>> THEN <<[type |-> "human", content |-> user_message]>>
     ELSE <<>>)
    \o (IF ai_message # <<>> THEN <<[type |-> "ai", content |-> ai_message]>> ELSE <<>>)

\* C40: each save_turn call appends the messages of its turn, the user's
\* before the AI's, to the history of its session and leaves the history of
\* every other session unchanged, and nothing else changes a history: the
\* history of a session is the messages of the turns saved to it, in call
\* order.
C40_HistoryIsTheTurnsSaved ==
    [][IF q_phase = "save" /\ q_phase' = "return"
       THEN /\ memory_store'[q_req.session_id]
                 = memory_store[q_req.session_id] \o TurnMessages(q_req.query, q_answer)
            /\ \A s \in Sessions \ {q_req.session_id} :
                  memory_store'[s] = memory_store[s]
       ELSE memory_store' = memory_store]_vars

\* Two turns have been saved, one to each session
C40_Witness ==
    /\ q_phase = "return"
    /\ memory_store["s1"] = <<[type |-> "human", content |-> <<"refund">>],
                              [type |-> "ai", content |-> LongLine]>>
    /\ Len(memory_store["s2"]) = 2
    /\ q_req.session_id = "s2"

====
